---- MODULE Spec2Model ----
(***************************************************************************)
(* Credit ledger, referral linkage and credit-gated generation flows of    *)
(* the Telegram bot (bot/database/crud.py, bot/middleware/db.py,           *)
(* bot/handlers/card_generation.py, bot/handlers/photo_processing.py).     *)
(*                                                                         *)
(* The user table is a function from telegram_id to a row.  The crud       *)
(* functions are operators from a table (and arguments) to the table after *)
(* the commit and the returned value.  Python's None is modelled by 0 in   *)
(* integer positions (falsy, like None, wherever the code tests            *)
(* truthiness) and by the empty option <<>> for optional texts.            *)
(*                                                                         *)
(* The mapped class in bot/database/models.py declares telegram_id, the    *)
(* display columns, credits_remaining and credits_used; crud.py and the    *)
(* handlers also read and write referral_link, referred_by_id and          *)
(* referral_earnings.  The rows here carry the columns crud.py uses.       *)
(***************************************************************************)
EXTENDS Integers, Sequences, FiniteSets, Bags, TLC

\* ------------------------------------------------------------------ bounds
\* Number of direct crud calls in one run.
MaxOps == 5
\* Number of direct crud calls among the handled events of SpecReferral.
MaxDirect == 2
\* Number of direct registrations in one run of SpecPurchase.
MaxRegistrations == 3
\* Number of completed purchases in one run of SpecPurchase.
MaxPurchases == 2
\* Purchases stop once a user's credits_remaining + credits_used reaches it.
MaxBalance == 226

\* ----------------------------------------------------------------- inputs
\* Telegram identities that send events (positive integers).
Ids == {1, 2}
\* Identities that register by direct calls, each naming any of them or
\* nobody as referrer, and pay.
Members == {1, 2, 3}
\* Every identity that has a conversation context.
Everyone == Ids \cup Members
\* Python None in an integer position (falsy, and no telegram_id).
None == 0
\* Display names a Telegram user may carry (username, first and last name
\* are refreshed together; one value stands for the triple).
Names == {"a", "b"}
\* Amounts passed to the crud functions: negative, zero, the card cost, the
\* photo cost and the default starting balance (an exact-balance debit).
Amounts == {-1, 0, 1, 40, 125}

\* Identities whose conversation with the bot is followed step by step.
Chatters == {1}
\* file_id values of uploaded photos.
FileIds == {"f"}
\* Message texts, as sequences of characters: a blank one and a word.
Texts == {<<" ">>, <<"x">>}
\* Prompts: one character, four and five characters between blanks, 1500 and
\* 1501 characters.
PromptTexts ==
    {<<"x">>, <<" ", "e", "d", "i", "t", " ">>,
     <<" ", "e", "d", "i", "t", "s", " ">>,
     [i \in 1..1500 |-> "x"], [i \in 1..1501 |-> "x"]}

VARIABLES
    users,   \* the users table: telegram_id -> row
    last,    \* the last crud call made directly and what it returned
    nops,    \* number of direct crud calls so far
    state,   \* FSM state of each user's conversation
    data,    \* FSM data of each user's conversation
    flow,    \* the gated flow in progress, or the last one finished
    outcome, \* how the last referral or payment event ended
    purchases, \* the completed purchases: a bag of <<buyer, amount>>
    store,   \* the users table as rows, for calls that overlap
    sess     \* the sessions of the overlapping calls

vars == <<users, last, nops, state, data, flow, outcome, purchases, store, sess>>

\* What only the referral and payment handlers and the overlapping calls
\* write.
aux == <<outcome, purchases, store, sess>>

\* ------------------------------------------------------------- user table
\* Optional values: Nothing is Python's None, Some(v) a value.
Nothing == <<>>
Some(v) == <<v>>

\* "No row": what scalar_one_or_none() gives when nothing matches.
NoUser == [telegram_id |-> None]

\* User(...) as get_or_create_user constructs it; credits_used defaults to 0.
User(telegram_id, username, credits_remaining, referred_by_id) ==
    [telegram_id       |-> telegram_id,
     username          |-> username,
     credits_remaining |-> credits_remaining,
     credits_used      |-> 0,
     referral_link     |-> Nothing,
     referred_by_id    |-> referred_by_id,
     referral_earnings |-> 0]

\* session.add(row) / attribute change followed by session.commit().
commit(db, row) ==
    [id \in DOMAIN db \cup {row.telegram_id} |->
        IF id = row.telegram_id THEN row ELSE db[id]]

get_user(db, telegram_id) ==
    IF telegram_id \in DOMAIN db THEN db[telegram_id] ELSE NoUser

\* get_or_create_user that grants the referral bonus to a user it finds.
get_or_create_user_rebonus(db, telegram_user, referrer_id) ==
    LET db_user == get_user(db, telegram_user.id)
        valid == /\ referrer_id # None
                 /\ referrer_id # telegram_user.id
                 /\ get_user(db, referrer_id) # NoUser
    IN
    IF db_user # NoUser
    THEN LET upd == [db_user EXCEPT
                        !.username = telegram_user.username,
                        !.credits_remaining = IF valid THEN @ + 100 ELSE @]
         IN  [db |-> commit(db, upd), user |-> upd]
    ELSE LET initial_credits == IF valid THEN 225 ELSE 125
             ref == IF valid THEN referrer_id ELSE None
             new_user == User(telegram_user.id, telegram_user.username,
                              initial_credits, ref)
         IN  [db |-> commit(db, new_user), user |-> new_user]

\* get_or_create_user that also rewards the referrer at registration.
get_or_create_user_pays_referrer(db, telegram_user, referrer_id) ==
    LET db_user == get_user(db, telegram_user.id) IN
    IF db_user # NoUser
    THEN IF db_user.username # telegram_user.username
         THEN LET upd == [db_user EXCEPT !.username = telegram_user.username]
              IN  [db |-> commit(db, upd), user |-> upd]
         ELSE [db |-> db, user |-> db_user]
    ELSE LET valid == /\ referrer_id # None
                      /\ referrer_id # telegram_user.id
                      /\ get_user(db, referrer_id) # NoUser
             initial_credits == IF valid THEN 225 ELSE 125
             ref == IF valid THEN referrer_id ELSE None
             new_user == User(telegram_user.id, telegram_user.username,
                              initial_credits, ref)
             paid == IF valid
                     THEN commit(db, [db[referrer_id] EXCEPT
                                         !.credits_remaining = @ + 100])
                     ELSE db
         IN  [db |-> commit(paid, new_user), user |-> new_user]

\* get_or_create_user that links a user it finds to a valid referrer.
get_or_create_user_relink(db, telegram_user, referrer_id) ==
    LET db_user == get_user(db, telegram_user.id)
        valid == /\ referrer_id # None
                 /\ referrer_id # telegram_user.id
                 /\ get_user(db, referrer_id) # NoUser
    IN
    IF db_user # NoUser
    THEN LET upd == [db_user EXCEPT
                        !.username = telegram_user.username,
                        !.referred_by_id = IF valid THEN referrer_id ELSE @]
         IN  [db |-> commit(db, upd), user |-> upd]
    ELSE LET initial_credits == IF valid THEN 225 ELSE 125
             ref == IF valid THEN referrer_id ELSE None
             new_user == User(telegram_user.id, telegram_user.username,
                              initial_credits, ref)
         IN  [db |-> commit(db, new_user), user |-> new_user]

\* get_or_create_user that accepts whatever referrer it is given.
get_or_create_user_unchecked(db, telegram_user, referrer_id) ==
    LET db_user == get_user(db, telegram_user.id) IN
    IF db_user # NoUser
    THEN IF db_user.username # telegram_user.username
         THEN LET upd == [db_user EXCEPT !.username = telegram_user.username]
              IN  [db |-> commit(db, upd), user |-> upd]
         ELSE [db |-> db, user |-> db_user]
    ELSE LET initial_credits == IF referrer_id # None THEN 225 ELSE 125
             new_user == User(telegram_user.id, telegram_user.username,
                              initial_credits, referrer_id)
         IN  [db |-> commit(db, new_user), user |-> new_user]

\* get_or_create_user that takes the referrer's word for it: no lookup.
get_or_create_user_trusting(db, telegram_user, referrer_id) ==
    LET db_user == get_user(db, telegram_user.id) IN
    IF db_user # NoUser
    THEN IF db_user.username # telegram_user.username
         THEN LET upd == [db_user EXCEPT !.username = telegram_user.username]
              IN  [db |-> commit(db, upd), user |-> upd]
         ELSE [db |-> db, user |-> db_user]
    ELSE LET valid == /\ referrer_id # None
                      /\ referrer_id # telegram_user.id
             initial_credits == IF valid THEN 225 ELSE 125
             ref == IF valid THEN referrer_id ELSE None
             new_user == User(telegram_user.id, telegram_user.username,
                              initial_credits, ref)
         IN  [db |-> commit(db, new_user), user |-> new_user]

\* Returns the table after the call and the row handed back.
get_or_create_user(db, telegram_user, referrer_id) ==
    LET db_user == get_user(db, telegram_user.id) IN
    IF db_user # NoUser
    THEN IF db_user.username # telegram_user.username
         THEN LET upd == [db_user EXCEPT !.username = telegram_user.username]
              IN  [db |-> commit(db, upd), user |-> upd]
         ELSE [db |-> db, user |-> db_user]
    ELSE LET valid == /\ referrer_id # None
                      /\ referrer_id # telegram_user.id
                      /\ get_user(db, referrer_id) # NoUser
             initial_credits == IF valid THEN 225 ELSE 125
             ref == IF valid THEN referrer_id ELSE None
             new_user == User(telegram_user.id, telegram_user.username,
                              initial_credits, ref)
         IN  [db |-> commit(db, new_user), user |-> new_user]

\* has_credits that asks for more than the amount needed.
has_credits_strict(db, telegram_id, amount_needed) ==
    LET user == get_user(db, telegram_id) IN
    IF user = NoUser THEN FALSE
    ELSE user.credits_remaining > amount_needed

has_credits(db, telegram_id, amount_needed) ==
    LET user == get_user(db, telegram_id) IN
    IF user = NoUser THEN FALSE
    ELSE user.credits_remaining >= amount_needed

\* use_credits without the sufficiency check.
use_credits_unchecked(db, telegram_id, amount_to_use) ==
    LET user == get_user(db, telegram_id) IN
    IF user # NoUser
    THEN [db |-> commit(db, [user EXCEPT
                    !.credits_remaining = @ - amount_to_use,
                    !.credits_used = @ + amount_to_use]),
          result |-> TRUE]
    ELSE [db |-> db, result |-> FALSE]

\* use_credits that forgets the lifetime counter.
use_credits_no_counter(db, telegram_id, amount_to_use) ==
    LET user == get_user(db, telegram_id) IN
    IF user # NoUser /\ user.credits_remaining >= amount_to_use
    THEN [db |-> commit(db, [user EXCEPT
                    !.credits_remaining = @ - amount_to_use]),
          result |-> TRUE]
    ELSE [db |-> db, result |-> FALSE]

\* use_credits that reports success and counts the use, but leaves the
\* balance as it was.
use_credits_no_debit(db, telegram_id, amount_to_use) ==
    LET user == get_user(db, telegram_id) IN
    IF user # NoUser /\ user.credits_remaining >= amount_to_use
    THEN [db |-> commit(db, [user EXCEPT !.credits_used = @ + amount_to_use]),
          result |-> TRUE]
    ELSE [db |-> db, result |-> FALSE]

use_credits(db, telegram_id, amount_to_use) ==
    LET user == get_user(db, telegram_id) IN
    IF user # NoUser /\ user.credits_remaining >= amount_to_use
    THEN [db |-> commit(db, [user EXCEPT
                    !.credits_remaining = @ - amount_to_use,
                    !.credits_used = @ + amount_to_use]),
          result |-> TRUE]
    ELSE [db |-> db, result |-> FALSE]

\* add_credits without the amount_to_add > 0 guard.
add_credits_unguarded(db, telegram_id, amount_to_add) ==
    LET user == get_user(db, telegram_id) IN
    IF user # NoUser
    THEN [db |-> commit(db, [user EXCEPT
                    !.credits_remaining = @ + amount_to_add]),
          result |-> TRUE]
    ELSE [db |-> db, result |-> FALSE]

\* add_credits that opens an account for an identity it does not know.
add_credits_creating(db, telegram_id, amount_to_add) ==
    LET user == get_user(db, telegram_id) IN
    IF amount_to_add <= 0 THEN [db |-> db, result |-> FALSE]
    ELSE IF user # NoUser
    THEN [db |-> commit(db, [user EXCEPT
                    !.credits_remaining = @ + amount_to_add]),
          result |-> TRUE]
    ELSE [db |-> commit(db, User(telegram_id, "a", amount_to_add, None)),
          result |-> TRUE]

add_credits(db, telegram_id, amount_to_add) ==
    LET user == get_user(db, telegram_id) IN
    IF user # NoUser /\ amount_to_add > 0
    THEN [db |-> commit(db, [user EXCEPT
                    !.credits_remaining = @ + amount_to_add]),
          result |-> TRUE]
    ELSE [db |-> db, result |-> FALSE]

count_referrals(db, user_id) ==
    Cardinality({id \in DOMAIN db : db[id].referred_by_id = user_id})

\* The identities reached from id by following referred_by_id, at most
\* fuel links.
RECURSIVE Ancestors(_, _, _)
Ancestors(db, id, fuel) ==
    IF fuel = 0 \/ id \notin DOMAIN db THEN {}
    ELSE IF db[id].referred_by_id = None THEN {}
    ELSE {db[id].referred_by_id} \cup
         Ancestors(db, db[id].referred_by_id, fuel - 1)

\* add_referral_earnings that also pays the amount into the balance.
add_referral_earnings_pays(db, user_id, amount) ==
    LET user == get_user(db, user_id) IN
    IF user # NoUser /\ amount > 0
    THEN [db |-> commit(db, [user EXCEPT !.referral_earnings = @ + amount,
                                         !.credits_remaining = @ + amount]),
          result |-> TRUE]
    ELSE [db |-> db, result |-> FALSE]

\* add_referral_earnings that keeps the last bonus instead of the sum.
add_referral_earnings_overwrites(db, user_id, amount) ==
    LET user == get_user(db, user_id) IN
    IF user # NoUser /\ amount > 0
    THEN [db |-> commit(db, [user EXCEPT !.referral_earnings = amount]),
          result |-> TRUE]
    ELSE [db |-> db, result |-> FALSE]

add_referral_earnings(db, user_id, amount) ==
    LET user == get_user(db, user_id) IN
    IF user # NoUser /\ amount > 0
    THEN [db |-> commit(db, [user EXCEPT !.referral_earnings = @ + amount]),
          result |-> TRUE]
    ELSE [db |-> db, result |-> FALSE]

\* ------------------------------------------------- direct calls to crud.py
\* The record of a call: the function, its arguments, what it returned and
\* the target's row as it stood before the call (NoUser if there was none).
NoCall ==
    [op |-> "none", id |-> None, arg |-> 0, result |-> FALSE,
     before |-> NoUser]

\* FSMContext of a user who never talked to the bot: no state, empty data.
NoState == "None"
EmptyDict == [k \in {} |-> <<>>]

IdleFlow ==
    [pc |-> "idle", kind |-> "none", uid |-> None, cost |-> 0,
     pre_remaining |-> 0, pre_used |-> 0, debited |-> FALSE,
     called |-> FALSE, response |-> "none", outcome |-> "none",
     needed |-> 0, have |-> 0]

\* No referral or payment event handled yet.
NoOutcome ==
    [handler |-> "none", uid |-> None, arg |-> Nothing, reply |-> "none",
     link |-> Nothing, notification |-> "none", raised |-> FALSE]

\* The sessions that may be open at the same time, and one not yet opened.
Sessions == {1, 2, 3}
NoSession ==
    [pc |-> "closed", op |-> "none", telegram_id |-> None, arg |-> 0,
     seen |-> NoUser, result |-> "none", created |-> FALSE,
     rejected |-> FALSE, raced |-> {}]

Init ==
    /\ users = [id \in {} |-> NoUser]
    /\ last = NoCall
    /\ nops = 0
    /\ state = [u \in Everyone |-> NoState]
    /\ data = [u \in Everyone |-> EmptyDict]
    /\ flow = IdleFlow
    /\ outcome = NoOutcome
    /\ purchases = EmptyBag
    /\ store = <<>>
    /\ sess = [s \in Sessions |-> NoSession]

conv == <<state, data, flow>>

CallGetOrCreateUser ==
    \E id \in Ids, n \in Names, r \in Ids \cup {None} :
        /\ nops < MaxOps
        /\ users' = get_or_create_user(users, [id |-> id, username |-> n], r).db
        /\ last' = [op |-> "get_or_create_user", id |-> id, arg |-> r,
                    result |-> TRUE, before |-> get_user(users, id)]
        /\ nops' = nops + 1
        /\ UNCHANGED <<conv, aux>>

CallHasCredits ==
    \E id \in Ids, a \in Amounts :
        /\ nops < MaxOps
        /\ users' = users
        /\ last' = [op |-> "has_credits", id |-> id, arg |-> a,
                    result |-> has_credits(users, id, a),
                    before |-> get_user(users, id)]
        /\ nops' = nops + 1
        /\ UNCHANGED <<conv, aux>>

CallUseCreditsOf(amounts) ==
    \E id \in Ids, a \in amounts :
        /\ nops < MaxOps
        /\ users' = use_credits(users, id, a).db
        /\ last' = [op |-> "use_credits", id |-> id, arg |-> a,
                    result |-> use_credits(users, id, a).result,
                    before |-> get_user(users, id)]
        /\ nops' = nops + 1
        /\ UNCHANGED <<conv, aux>>

CallUseCredits == CallUseCreditsOf(Amounts)

CallAddCredits ==
    \E id \in Ids, a \in Amounts :
        /\ nops < MaxOps
        /\ users' = add_credits(users, id, a).db
        /\ last' = [op |-> "add_credits", id |-> id, arg |-> a,
                    result |-> add_credits(users, id, a).result,
                    before |-> get_user(users, id)]
        /\ nops' = nops + 1
        /\ UNCHANGED <<conv, aux>>

CallAddReferralEarnings ==
    \E id \in Ids, a \in Amounts :
        /\ nops < MaxOps
        /\ users' = add_referral_earnings(users, id, a).db
        /\ last' = [op |-> "add_referral_earnings", id |-> id, arg |-> a,
                    result |-> add_referral_earnings(users, id, a).result,
                    before |-> get_user(users, id)]
        /\ nops' = nops + 1
        /\ UNCHANGED <<conv, aux>>

NextLedger ==
    \/ CallGetOrCreateUser
    \/ CallHasCredits
    \/ CallUseCredits
    \/ CallAddCredits
    \/ CallAddReferralEarnings

SpecLedger == Init /\ [][NextLedger]_vars

\* ------------------------------------------------------------ FSM context
\* bool(text) for an optional text: None and "" are falsy.
TruthyText(opt) == opt # Nothing /\ Len(opt[1]) > 0
\* bool(file_id) for an optional file id.
TruthyId(opt) == opt # Nothing /\ opt[1] # ""

\* state.update_data(**new): new keys are merged over the stored ones.
update_data(d, new) ==
    [k \in DOMAIN d \cup DOMAIN new |-> IF k \in DOMAIN new THEN new[k] ELSE d[k]]

\* data.get(key, default)
Get(d, key, default) == IF key \in DOMAIN d THEN d[key] ELSE default

\* str.strip(): leading and trailing blanks removed.
RECURSIVE lstrip(_)
lstrip(t) == IF t # <<>> /\ Head(t) = " " THEN lstrip(Tail(t)) ELSE t
RECURSIVE rstrip(_)
rstrip(t) ==
    IF t # <<>> /\ t[Len(t)] = " " THEN rstrip(SubSeq(t, 1, Len(t) - 1)) ELSE t
strip(t) == rstrip(lstrip(t))

\* The conversation states named by the handlers' StateFilters.
CardWaitingForPhoto == "CardGenerationStates:waiting_for_photo"
CardWaitingForCharacteristics == "CardGenerationStates:waiting_for_characteristics"
CardWaitingForAudience == "CardGenerationStates:waiting_for_audience"
CardWaitingForSellingPoints == "CardGenerationStates:waiting_for_selling_points"
PhotoWaitingForPhoto == "PhotoProcessingStates:waiting_for_photo"
PhotoWaitingForPrompt == "PhotoProcessingStates:waiting_for_prompt"

\* ------------------------------------------------------ event entry point
\* The Telegram user object of an event's sender.
TgUser(u) == [id |-> u, username |-> "a"]

\* DbSessionMiddleware.__call__: every event a handler is found for first
\* passes through get_or_create_user without a referrer; the row is handed
\* on as db_user.
DbSessionMiddleware(db, u) == get_or_create_user(db, TgUser(u), None)

\* One inbound event is handled at a time: a new event is taken up only
\* when no gated flow is between its steps.
Accept == flow.pc \in {"idle", "done"}

\* A handler that touches neither the ledger nor the conversation.
Replied(u) ==
    /\ Accept
    /\ users' = DbSessionMiddleware(users, u).db
    /\ flow' = IdleFlow
    /\ UNCHANGED <<state, data, last, nops, aux>>

\* /support: the command router comes first, so the command is served in
\* any conversation state; the handler only replies.
support_command(u) == Replied(u)

\* ------------------------------------------- card flow: data collection
callback_start_card_generation(u) ==
    /\ Accept
    /\ users' = DbSessionMiddleware(users, u).db
    /\ data' = [data EXCEPT ![u] = update_data(@,
                   [photo_file_id      |-> Nothing,
                    characteristics    |-> EmptyDict,
                    target_audience    |-> Nothing,
                    selling_points     |-> Nothing,
                    semantic_core_text |-> Nothing])]
    /\ state' = [state EXCEPT ![u] = CardWaitingForPhoto]
    /\ flow' = IdleFlow
    /\ UNCHANGED <<last, nops, aux>>

\* process_card_photo going on to the audience question at once.
process_card_photo_skipping(u, file_id) ==
    /\ Accept
    /\ state[u] = CardWaitingForPhoto
    /\ users' = DbSessionMiddleware(users, u).db
    /\ data' = [data EXCEPT ![u] = update_data(@,
                   [photo_file_id        |-> Some(file_id),
                    characteristics      |-> EmptyDict,
                    characteristics_step |-> "name"])]
    /\ state' = [state EXCEPT ![u] = CardWaitingForAudience]
    /\ flow' = IdleFlow
    /\ UNCHANGED <<last, nops, aux>>

process_card_photo(u, file_id) ==
    /\ Accept
    /\ state[u] = CardWaitingForPhoto
    /\ users' = DbSessionMiddleware(users, u).db
    /\ data' = [data EXCEPT ![u] = update_data(@,
                   [photo_file_id        |-> Some(file_id),
                    characteristics      |-> EmptyDict,
                    characteristics_step |-> "name"])]
    /\ state' = [state EXCEPT ![u] = CardWaitingForCharacteristics]
    /\ flow' = IdleFlow
    /\ UNCHANGED <<last, nops, aux>>

process_card_photo_error(u) ==
    /\ state[u] = CardWaitingForPhoto
    /\ Replied(u)

\* process_characteristics moving on after the brand.
process_characteristics_two_fields(u, msg) ==
    /\ Accept
    /\ state[u] = CardWaitingForCharacteristics
    /\ users' = DbSessionMiddleware(users, u).db
    /\ LET text == strip(msg)
           characteristics == Get(data[u], "characteristics", EmptyDict)
           current_step == Get(data[u], "characteristics_step", "name")
           set == update_data(characteristics,
                              [k \in {current_step} |-> text])
       IN  CASE current_step = "name" ->
                  /\ data' = [data EXCEPT ![u] = update_data(@,
                        [characteristics |-> set,
                         characteristics_step |-> "brand"])]
                  /\ state' = state
             [] current_step = "brand" ->
                  /\ data' = [data EXCEPT ![u] = update_data(@,
                        [characteristics |-> set])]
                  /\ state' = [state EXCEPT ![u] = CardWaitingForAudience]
             [] OTHER -> UNCHANGED <<state, data>>
    /\ flow' = IdleFlow
    /\ UNCHANGED <<last, nops, aux>>

process_characteristics(u, msg) ==
    /\ Accept
    /\ state[u] = CardWaitingForCharacteristics
    /\ users' = DbSessionMiddleware(users, u).db
    /\ LET text == strip(msg)
           characteristics == Get(data[u], "characteristics", EmptyDict)
           current_step == Get(data[u], "characteristics_step", "name")
           set == update_data(characteristics,
                              [k \in {current_step} |-> text])
       IN  CASE current_step = "name" ->
                  /\ data' = [data EXCEPT ![u] = update_data(@,
                        [characteristics |-> set,
                         characteristics_step |-> "brand"])]
                  /\ state' = state
             [] current_step = "brand" ->
                  /\ data' = [data EXCEPT ![u] = update_data(@,
                        [characteristics |-> set,
                         characteristics_step |-> "category"])]
                  /\ state' = state
             [] current_step = "category" ->
                  /\ data' = [data EXCEPT ![u] = update_data(@,
                        [characteristics |-> set])]
                  /\ state' = [state EXCEPT ![u] = CardWaitingForAudience]
             [] OTHER -> UNCHANGED <<state, data>>
    /\ flow' = IdleFlow
    /\ UNCHANGED <<last, nops, aux>>

process_characteristics_error(u) ==
    /\ state[u] = CardWaitingForCharacteristics
    /\ Replied(u)

process_target_audience(u, msg) ==
    /\ Accept
    /\ state[u] = CardWaitingForAudience
    /\ users' = DbSessionMiddleware(users, u).db
    /\ data' = [data EXCEPT ![u] = update_data(@, [target_audience |-> Some(msg)])]
    /\ state' = [state EXCEPT ![u] = CardWaitingForSellingPoints]
    /\ flow' = IdleFlow
    /\ UNCHANGED <<last, nops, aux>>

process_target_audience_error(u) ==
    /\ state[u] = CardWaitingForAudience
    /\ Replied(u)

\* No flow in progress, the conversation having been cancelled by u.
Cancelled(u) == [IdleFlow EXCEPT !.uid = u, !.outcome = "cancelled"]

\* callback_cancel_card_generation resetting the state without state.clear().
callback_cancel_card_generation_keeping_data(u) ==
    /\ Accept
    /\ users' = DbSessionMiddleware(users, u).db
    /\ state' = [state EXCEPT ![u] = NoState]
    /\ data' = data
    /\ flow' = Cancelled(u)
    /\ UNCHANGED <<last, nops, aux>>

\* The cancel button of the card flow, served in any state: state.clear().
callback_cancel_card_generation(u) ==
    /\ Accept
    /\ users' = DbSessionMiddleware(users, u).db
    /\ state' = [state EXCEPT ![u] = NoState]
    /\ data' = [data EXCEPT ![u] = EmptyDict]
    /\ flow' = Cancelled(u)
    /\ UNCHANGED <<last, nops, aux>>

\* ------------------------------------------------------------ gated flows
CARD_GENERATION_COST == 1
PHOTO_GENERATION_COST == 40

\* What the generation service does with a request: a 200 answer with a
\* result, a 200 answer carrying an application-level error, a non-200
\* answer, a network failure, no answer within ClientTimeout(total=...).
Responses == {"ok", "app_error", "http_error", "network_error", "timeout"}

\* The exception the aiohttp request raises: connection failures are
\* aiohttp.ClientError subclasses; the expiry of ClientTimeout(total=...)
\* raises asyncio.TimeoutError, which is not an aiohttp.ClientError.
raised(response) ==
    CASE response = "network_error" -> "aiohttp.ClientError"
      [] response = "timeout"       -> "asyncio.TimeoutError"
      [] OTHER                      -> "none"

\* Steps of the try block, in program order: use_credits, then the POST and
\* the handling of its answer, then the finally clause.
GateOrder_call_first == <<"call", "debit", "finally">>

GateOrder == <<"debit", "call", "finally">>

StepAfter(pc) ==
    LET i == CHOOSE j \in 1..Len(GateOrder) : GateOrder[j] = pc
    IN  IF i = Len(GateOrder) THEN "done" ELSE GateOrder[i + 1]

\* A flow record at the entry of a gated function.
EnterFlow(kind, cost, db_user) ==
    [IdleFlow EXCEPT !.kind = kind, !.uid = db_user.telegram_id,
                     !.cost = cost,
                     !.pre_remaining = db_user.credits_remaining,
                     !.pre_used = db_user.credits_used]

\* if not photo_file_id or not all([name, brand, category])
card_data_missing(d) ==
    LET photo_file_id == Get(d, "photo_file_id", Nothing)
        characteristics == Get(d, "characteristics", EmptyDict)
    IN  \/ ~TruthyId(photo_file_id)
        \/ \E k \in {"name", "brand", "category"} :
              ~(k \in DOMAIN characteristics /\ Len(characteristics[k]) > 0)

\* generate_card_with_gpt with the credit check removed.
generate_card_with_gpt_no_check(db, db_user, d) ==
    LET f == EnterFlow("card", CARD_GENERATION_COST, db_user) IN
    IF card_data_missing(d)
    THEN [db |-> db, clear |-> TRUE,
          flow |-> [f EXCEPT !.pc = "done", !.outcome = "missing_data"]]
    ELSE [db |-> db, clear |-> FALSE, flow |-> [f EXCEPT !.pc = GateOrder[1]]]

\* generate_card_with_gpt debiting before it examines the collected data.
generate_card_with_gpt_debit_first(db, db_user, d) ==
    LET f == EnterFlow("card", CARD_GENERATION_COST, db_user) IN
    IF db_user.credits_remaining < CARD_GENERATION_COST
    THEN [db |-> db, clear |-> TRUE,
          flow |-> [f EXCEPT !.pc = "done", !.outcome = "insufficient",
                             !.needed = CARD_GENERATION_COST,
                             !.have = db_user.credits_remaining]]
    ELSE IF card_data_missing(d)
    THEN [db |-> use_credits(db, db_user.telegram_id, CARD_GENERATION_COST).db,
          clear |-> TRUE,
          flow |-> [f EXCEPT !.pc = "done", !.outcome = "missing_data"]]
    ELSE [db |-> db, clear |-> FALSE, flow |-> [f EXCEPT !.pc = GateOrder[1]]]

\* generate_card_with_gpt returning on insufficient credits without
\* state.clear().
generate_card_with_gpt_no_clear(db, db_user, d) ==
    LET f == EnterFlow("card", CARD_GENERATION_COST, db_user) IN
    IF db_user.credits_remaining < CARD_GENERATION_COST
    THEN [db |-> db, clear |-> FALSE,
          flow |-> [f EXCEPT !.pc = "done", !.outcome = "insufficient",
                             !.needed = CARD_GENERATION_COST,
                             !.have = db_user.credits_remaining]]
    ELSE IF card_data_missing(d)
    THEN [db |-> db, clear |-> TRUE,
          flow |-> [f EXCEPT !.pc = "done", !.outcome = "missing_data"]]
    ELSE [db |-> db, clear |-> FALSE, flow |-> [f EXCEPT !.pc = GateOrder[1]]]

\* generate_card_with_gpt up to the try block: the credit check, the check
\* of the collected data, the "processing" message.  Gives the table, the
\* flow record and whether state.clear() was called.
generate_card_with_gpt(db, db_user, d) ==
    LET f == EnterFlow("card", CARD_GENERATION_COST, db_user) IN
    IF db_user.credits_remaining < CARD_GENERATION_COST
    THEN [db |-> db, clear |-> TRUE,
          flow |-> [f EXCEPT !.pc = "done", !.outcome = "insufficient",
                             !.needed = CARD_GENERATION_COST,
                             !.have = db_user.credits_remaining]]
    ELSE IF card_data_missing(d)
    THEN [db |-> db, clear |-> TRUE,
          flow |-> [f EXCEPT !.pc = "done", !.outcome = "missing_data"]]
    ELSE [db |-> db, clear |-> FALSE, flow |-> [f EXCEPT !.pc = GateOrder[1]]]

\* The reply the card flow sends for an answer of the service.
card_reply(response) ==
    CASE response = "ok"         -> "delivered"
      [] response = "app_error"  -> "external_error"
      [] response = "http_error" -> "service_unavailable"
      [] raised(response) = "aiohttp.ClientError" -> "unreachable"
      [] OTHER                   -> "internal_error"

\* card_response giving the credit back when nothing was delivered.
card_response_refund(db, telegram_id, response) ==
    [db |-> IF response = "ok" THEN db
            ELSE add_credits(db, telegram_id, CARD_GENERATION_COST).db,
     outcome |-> card_reply(response), clear |-> TRUE]

\* The POST and everything the function does with its answer or exception:
\* no branch writes to the table, every branch calls state.clear().
card_response(db, telegram_id, response) ==
    [db |-> db, outcome |-> card_reply(response), clear |-> TRUE]

process_selling_points(u, msg) ==
    /\ Accept
    /\ state[u] = CardWaitingForSellingPoints
    /\ LET mw == DbSessionMiddleware(users, u)
           d == update_data(data[u], [selling_points |-> Some(msg)])
           g == generate_card_with_gpt(mw.db, mw.user, d)
       IN  /\ users' = g.db
           /\ flow' = g.flow
           /\ data' = [data EXCEPT ![u] = IF g.clear THEN EmptyDict ELSE d]
           /\ state' = [state EXCEPT ![u] = IF g.clear THEN NoState ELSE @]
    /\ UNCHANGED <<last, nops, aux>>

process_selling_points_error(u) ==
    /\ state[u] = CardWaitingForSellingPoints
    /\ Replied(u)

\* await use_credits(session, telegram_id, CARD_GENERATION_COST)
generate_card_with_gpt_debit ==
    /\ flow.kind = "card"
    /\ flow.pc = "debit"
    /\ LET r == use_credits(users, flow.uid, CARD_GENERATION_COST)
       IN  /\ users' = r.db
           /\ flow' = [flow EXCEPT !.pc = StepAfter("debit"),
                                   !.debited = r.result]
    /\ UNCHANGED <<state, data, last, nops, aux>>

\* aio_session.post(...) and the handling of what comes back.
generate_card_with_gpt_call ==
    /\ flow.kind = "card"
    /\ flow.pc = "call"
    /\ \E response \in Responses :
          LET r == card_response(users, flow.uid, response)
          IN  /\ users' = r.db
              /\ flow' = [flow EXCEPT !.pc = StepAfter("call"),
                                      !.called = TRUE,
                                      !.response = response,
                                      !.outcome = r.outcome]
              /\ data' = [data EXCEPT ![flow.uid] =
                             IF r.clear THEN EmptyDict ELSE @]
              /\ state' = [state EXCEPT ![flow.uid] =
                             IF r.clear THEN NoState ELSE @]
    /\ UNCHANGED <<last, nops, aux>>

\* finally: processing_message.delete()
generate_card_with_gpt_finally ==
    /\ flow.kind = "card"
    /\ flow.pc = "finally"
    /\ flow' = [flow EXCEPT !.pc = StepAfter("finally")]
    /\ UNCHANGED <<users, state, data, last, nops, aux>>

\* ------------------------------------------ photo flow: data collection
callback_start_photo_processing(u) ==
    /\ Accept
    /\ users' = DbSessionMiddleware(users, u).db
    /\ data' = [data EXCEPT ![u] = update_data(@,
                   [photo_file_ids |-> <<>>, prompt |-> Nothing])]
    /\ state' = [state EXCEPT ![u] = PhotoWaitingForPhoto]
    /\ flow' = IdleFlow
    /\ UNCHANGED <<last, nops, aux>>

process_photo(u, file_id) ==
    /\ Accept
    /\ state[u] = PhotoWaitingForPhoto
    /\ users' = DbSessionMiddleware(users, u).db
    /\ LET photo_file_ids == Get(data[u], "photo_file_ids", <<>>)
           appended == Append(photo_file_ids, file_id)
       IN  IF Len(photo_file_ids) >= 3
           THEN UNCHANGED <<state, data>>
           ELSE /\ data' = [data EXCEPT ![u] = update_data(@,
                               [photo_file_ids |-> appended])]
                /\ state' = [state EXCEPT ![u] =
                               IF Len(appended) = 3
                               THEN PhotoWaitingForPrompt ELSE @]
    /\ flow' = IdleFlow
    /\ UNCHANGED <<last, nops, aux>>

process_photo_error(u) ==
    /\ state[u] = PhotoWaitingForPhoto
    /\ Replied(u)

\* callback_photos_done without the test for an empty list.
callback_photos_done_unchecked(u) ==
    /\ Accept
    /\ state[u] = PhotoWaitingForPhoto
    /\ users' = DbSessionMiddleware(users, u).db
    /\ state' = [state EXCEPT ![u] = PhotoWaitingForPrompt]
    /\ flow' = IdleFlow
    /\ UNCHANGED <<data, last, nops, aux>>

callback_photos_done(u) ==
    /\ Accept
    /\ state[u] = PhotoWaitingForPhoto
    /\ users' = DbSessionMiddleware(users, u).db
    /\ IF Get(data[u], "photo_file_ids", <<>>) = <<>>
       THEN state' = state
       ELSE state' = [state EXCEPT ![u] = PhotoWaitingForPrompt]
    /\ flow' = IdleFlow
    /\ UNCHANGED <<data, last, nops, aux>>

\* The cancel button of the photo flow, served in any state: state.clear().
callback_cancel_photo_processing(u) ==
    /\ Accept
    /\ users' = DbSessionMiddleware(users, u).db
    /\ state' = [state EXCEPT ![u] = NoState]
    /\ data' = [data EXCEPT ![u] = EmptyDict]
    /\ flow' = Cancelled(u)
    /\ UNCHANGED <<last, nops, aux>>

\* if not photo_file_ids or not prompt
photo_data_missing(d) ==
    \/ Get(d, "photo_file_ids", <<>>) = <<>>
    \/ ~TruthyText(Get(d, "prompt", Nothing))

\* process_photo_with_api up to the try block: the credit check, the check
\* of the collected data, the "processing" message.
process_photo_with_api(db, db_user, d) ==
    LET f == EnterFlow("photo", PHOTO_GENERATION_COST, db_user) IN
    IF db_user.credits_remaining < PHOTO_GENERATION_COST
    THEN [db |-> db, clear |-> TRUE,
          flow |-> [f EXCEPT !.pc = "done", !.outcome = "insufficient",
                             !.needed = PHOTO_GENERATION_COST,
                             !.have = db_user.credits_remaining]]
    ELSE IF photo_data_missing(d)
    THEN [db |-> db, clear |-> TRUE,
          flow |-> [f EXCEPT !.pc = "done", !.outcome = "missing_data"]]
    ELSE [db |-> db, clear |-> FALSE, flow |-> [f EXCEPT !.pc = GateOrder[1]]]

\* The reply the photo flow sends for an answer of the service.
photo_reply(response) ==
    CASE response = "ok"           -> "delivered"
      [] response = "empty_result" -> "no_result"
      [] response = "app_error"    -> "external_error"
      [] response = "http_error"   -> "service_unavailable"
      [] raised(response) = "aiohttp.ClientError" -> "unreachable"
      [] OTHER                     -> "internal_error"

\* The POST and everything the function does with its answer or exception.
photo_response(db, telegram_id, response) ==
    [db |-> db, outcome |-> photo_reply(response), clear |-> TRUE]

\* process_prompt without the upper limit on the prompt.
process_prompt_no_upper_limit(u, msg) ==
    /\ Accept
    /\ state[u] = PhotoWaitingForPrompt
    /\ LET mw == DbSessionMiddleware(users, u)
           prompt_text == strip(msg)
           d == update_data(data[u], [prompt |-> Some(prompt_text)])
           g == process_photo_with_api(mw.db, mw.user, d)
       IN  IF Len(prompt_text) < 5
           THEN /\ users' = mw.db
                /\ flow' = IdleFlow
                /\ UNCHANGED <<state, data>>
           ELSE /\ users' = g.db
                /\ flow' = g.flow
                /\ data' = [data EXCEPT ![u] = IF g.clear THEN EmptyDict ELSE d]
                /\ state' = [state EXCEPT ![u] = IF g.clear THEN NoState ELSE @]
    /\ UNCHANGED <<last, nops, aux>>

process_prompt(u, msg) ==
    /\ Accept
    /\ state[u] = PhotoWaitingForPrompt
    /\ LET mw == DbSessionMiddleware(users, u)
           prompt_text == strip(msg)
           d == update_data(data[u], [prompt |-> Some(prompt_text)])
           g == process_photo_with_api(mw.db, mw.user, d)
       IN  IF Len(prompt_text) < 5 \/ Len(prompt_text) > 1500
           THEN /\ users' = mw.db
                /\ flow' = IdleFlow
                /\ UNCHANGED <<state, data>>
           ELSE /\ users' = g.db
                /\ flow' = g.flow
                /\ data' = [data EXCEPT ![u] = IF g.clear THEN EmptyDict ELSE d]
                /\ state' = [state EXCEPT ![u] = IF g.clear THEN NoState ELSE @]
    /\ UNCHANGED <<last, nops, aux>>

process_prompt_error(u) ==
    /\ state[u] = PhotoWaitingForPrompt
    /\ Replied(u)

\* await use_credits(session, telegram_id, PHOTO_GENERATION_COST)
process_photo_with_api_debit ==
    /\ flow.kind = "photo"
    /\ flow.pc = "debit"
    /\ LET r == use_credits(users, flow.uid, PHOTO_GENERATION_COST)
       IN  /\ users' = r.db
           /\ flow' = [flow EXCEPT !.pc = StepAfter("debit"),
                                   !.debited = r.result]
    /\ UNCHANGED <<state, data, last, nops, aux>>

\* aio_session.post(...) and the handling of what comes back.
process_photo_with_api_call ==
    /\ flow.kind = "photo"
    /\ flow.pc = "call"
    /\ \E response \in Responses \cup {"empty_result"} :
          LET r == photo_response(users, flow.uid, response)
          IN  /\ users' = r.db
              /\ flow' = [flow EXCEPT !.pc = StepAfter("call"),
                                      !.called = TRUE,
                                      !.response = response,
                                      !.outcome = r.outcome]
              /\ data' = [data EXCEPT ![flow.uid] =
                             IF r.clear THEN EmptyDict ELSE @]
              /\ state' = [state EXCEPT ![flow.uid] =
                             IF r.clear THEN NoState ELSE @]
    /\ UNCHANGED <<last, nops, aux>>

\* finally: processing_message.delete()
process_photo_with_api_finally ==
    /\ flow.kind = "photo"
    /\ flow.pc = "finally"
    /\ flow' = [flow EXCEPT !.pc = StepAfter("finally")]
    /\ UNCHANGED <<users, state, data, last, nops, aux>>

\* ------------------------------------------------------ the conversation
GateStep ==
    \/ generate_card_with_gpt_debit
    \/ generate_card_with_gpt_call
    \/ generate_card_with_gpt_finally
    \/ process_photo_with_api_debit
    \/ process_photo_with_api_call
    \/ process_photo_with_api_finally

NextGate ==
    \/ \E u \in Ids : support_command(u)
    \/ \E u \in Chatters : callback_start_card_generation(u)
    \/ \E u \in Chatters, f \in FileIds : process_card_photo(u, f)
    \/ \E u \in Chatters : process_card_photo_error(u)
    \/ \E u \in Chatters, t \in Texts : process_characteristics(u, t)
    \/ \E u \in Chatters : process_characteristics_error(u)
    \/ \E u \in Chatters, t \in Texts : process_target_audience(u, t)
    \/ \E u \in Chatters : process_target_audience_error(u)
    \/ \E u \in Chatters, t \in Texts : process_selling_points(u, t)
    \/ \E u \in Chatters : process_selling_points_error(u)
    \/ \E u \in Chatters : callback_cancel_card_generation(u)
    \/ \E u \in Chatters : callback_start_photo_processing(u)
    \/ \E u \in Chatters, f \in FileIds : process_photo(u, f)
    \/ \E u \in Chatters : process_photo_error(u)
    \/ \E u \in Chatters : callback_photos_done(u)
    \/ \E u \in Chatters, t \in PromptTexts : process_prompt(u, t)
    \/ \E u \in Chatters : process_prompt_error(u)
    \/ \E u \in Chatters : callback_cancel_photo_processing(u)
    \/ GateStep

SpecGate == Init /\ [][NextGate]_vars

\* The awaited calls of a gated flow return: use_credits commits, the POST
\* answers or fails within its ClientTimeout, the message is deleted.
SpecGateFair == SpecGate /\ WF_vars(GateStep)

\* ---------------------------------------------------------- registrations
CallGetOrCreateUserAmong(ids) ==
    \E id \in ids, r \in ids \cup {None} :
        /\ nops < MaxOps
        /\ users' = get_or_create_user(users, TgUser(id), r).db
        /\ last' = [op |-> "get_or_create_user", id |-> id, arg |-> r,
                    result |-> TRUE, before |-> get_user(users, id)]
        /\ nops' = nops + 1
        /\ UNCHANGED <<conv, aux>>

NextRegistry == CallGetOrCreateUserAmong(Members)

SpecRegistry == Init /\ [][NextRegistry]_vars

\* ------------------------------------------------- referral and purchases
\* Texts are sequences of characters.  The decimal digits, in order.
DigitChars == <<"0", "1", "2", "3", "4", "5", "6", "7", "8", "9">>
IsDigit(c) == \E i \in 1..10 : DigitChars[i] = c
DigitValue(c) == (CHOOSE i \in 1..10 : DigitChars[i] = c) - 1

\* str(n) of an integer.
RECURSIVE str(_)
str(n) ==
    IF n < 0 THEN <<"-">> \o str(0 - n)
    ELSE IF n < 10 THEN <<DigitChars[n + 1]>>
    ELSE str(n \div 10) \o <<DigitChars[(n % 10) + 1]>>

\* text.startswith(prefix)
startswith(t, prefix) ==
    Len(t) >= Len(prefix) /\ SubSeq(t, 1, Len(prefix)) = prefix

\* text.split(sep) for a one-character separator: the pieces between the
\* separators, empty pieces included.
RECURSIVE split(_, _)
split(t, sep) ==
    IF \A i \in 1..Len(t) : t[i] # sep THEN <<t>>
    ELSE LET i == CHOOSE k \in 1..Len(t) :
                     t[k] = sep /\ \A j \in 1..(k - 1) : t[j] # sep
         IN  <<SubSeq(t, 1, i - 1)>> \o split(SubSeq(t, i + 1, Len(t)), sep)

\* The value of a non-empty sequence of digits.
RECURSIVE DigitsValue(_)
DigitsValue(ds) ==
    IF Len(ds) = 0 THEN 0
    ELSE 10 * DigitsValue(SubSeq(ds, 1, Len(ds) - 1)) + DigitValue(ds[Len(ds)])

\* int(text): blanks around the literal are dropped, a sign may lead, single
\* underscores may group the digits.  Some(value), or Nothing where Python
\* raises ValueError.
int(t) ==
    LET s == strip(t)
        signed == s # <<>> /\ Head(s) \in {"+", "-"}
        body == IF signed THEN Tail(s) ELSE s
        digits == SelectSeq(body, LAMBDA c : c # "_")
        grouped_well ==
            /\ body # <<>>
            /\ Head(body) # "_"
            /\ body[Len(body)] # "_"
            /\ \A i \in 1..(Len(body) - 1) :
                  ~(body[i] = "_" /\ body[i + 1] = "_")
    IN  IF /\ grouped_well
           /\ digits # <<>>
           /\ \A i \in 1..Len(digits) : IsDigit(digits[i])
        THEN Some(IF signed /\ Head(s) = "-" THEN 0 - DigitsValue(digits)
                  ELSE DigitsValue(digits))
        ELSE Nothing

\* The prefix of a referral code and the code f"ref_{telegram_id}".
ref_ == <<"r", "e", "f", "_">>
referral_code(telegram_id) == ref_ \o str(telegram_id)

\* start_command, lines 21-26: the referrer named by command.args, None if
\* there are no args, they do not start with "ref_", or the piece after the
\* first underscore is not an integer literal.
parse_referrer_id(args) ==
    IF TruthyText(args) /\ startswith(args[1], ref_)
    THEN LET pieces == split(args[1], "_") IN
         IF Len(pieces) < 2 THEN None
         ELSE IF int(pieces[2]) = Nothing THEN None
         ELSE int(pieces[2])[1]
    ELSE None

\* Arguments of /start: none, the codes of the two identities, a code of an
\* identity nobody has, a code without a number, one with a word for the
\* number, one with a word after the number, and a word that is no code.
StartArgs ==
    {Nothing, Some(referral_code(1)), Some(referral_code(2)),
     Some(referral_code(7)), Some(ref_), Some(ref_ \o <<"x">>),
     Some(referral_code(1) \o <<"_", "x">>),
     Some(<<"p", "r", "o", "m", "o">>)}

\* The referrer parsed from every /start argument that comes in, worked
\* out once.
referrer_of == [a \in StartArgs |-> parse_referrer_id(a)]

\* /start [args]: served in any conversation state.  The middleware has
\* already fetched or created the sender's row, without a referrer, when
\* the handler calls get_or_create_user with the referrer it parsed.
start_command(u, args) ==
    /\ Accept
    /\ LET mw == DbSessionMiddleware(users, u)
           referrer_id == referrer_of[args]
       IN  users' = get_or_create_user(mw.db, TgUser(u), referrer_id).db
    /\ flow' = IdleFlow
    /\ UNCHANGED <<state, data, last, nops, aux>>

\* A code made from the balance as well, and stored on every request.
issue_referral_link_reissuing(db, db_user) ==
    LET code == referral_code(db_user.telegram_id)
                    \o <<"_">> \o str(db_user.credits_remaining)
    IN  [db |-> commit(db, [db_user EXCEPT !.referral_link = Some(code)]),
         link |-> Some(code)]

\* referral_command, lines 107-113: the code is made and stored only when
\* the row has none; the link shown carries the row's code.
issue_referral_link(db, db_user) ==
    IF ~TruthyText(db_user.referral_link)
    THEN LET code == referral_code(db_user.telegram_id) IN
         [db |-> commit(db, [db_user EXCEPT !.referral_link = Some(code)]),
          link |-> Some(code)]
    ELSE [db |-> db, link |-> db_user.referral_link]

\* The body of referral_command for the sender's row, entered from the
\* handler named; the code the row came with is kept as the argument.
show_referral_link(handler, u) ==
    /\ Accept
    /\ LET mw == DbSessionMiddleware(users, u)
           issued == issue_referral_link(mw.db, mw.user)
       IN  /\ users' = issued.db
           /\ outcome' = [NoOutcome EXCEPT !.handler = handler, !.uid = u,
                                           !.arg = mw.user.referral_link,
                                           !.link = issued.link]
    /\ flow' = IdleFlow
    /\ UNCHANGED <<state, data, last, nops, purchases, store, sess>>

\* /referral, served in any conversation state.
referral_command(u) == show_referral_link("referral_command", u)

\* The show_referral_menu button: referral_command called with the callback.
show_referral_menu_callback(u) ==
    show_referral_link("show_referral_menu_callback", u)

\* int(amount * 0.20) rounded up instead of truncated.
bonus_amount_ceil(amount) ==
    IF amount >= 0 THEN (amount * 20 + 99) \div 100
    ELSE 0 - (((0 - amount) * 20) \div 100)

\* int(amount * 0.20): a fifth of the amount, truncated towards zero.
bonus_amount(amount) ==
    IF amount >= 0 THEN (amount * 20) \div 100
    ELSE 0 - (((0 - amount) * 20) \div 100)

\* A bonus step taken whatever the bonus is.
bonus_due_always(bonus) == TRUE

\* if bonus_amount > 0:
bonus_due(bonus) == bonus > 0

credits == <<"c", "r", "e", "d", "i", "t", "s">>

\* The payload read from its last two fields, however many there are.
parse_payload_lenient(payload) ==
    LET pieces == split(payload, ":") IN
    IF Len(pieces) < 2 \/ int(pieces[Len(pieces)]) = Nothing THEN Nothing
    ELSE Some([type |-> pieces[Len(pieces) - 1],
               amount |-> int(pieces[Len(pieces)])[1]])

\* _, type, amount_str = payload.split(":"); amount = int(amount_str).
\* Nothing where the unpacking or int() raises ValueError.
parse_payload(payload) ==
    LET pieces == split(payload, ":") IN
    IF Len(pieces) # 3 \/ int(pieces[3]) = Nothing THEN Nothing
    ELSE Some([type |-> pieces[2], amount |-> int(pieces[3])[1]])

\* Invoice payloads: the 70-credit package, a malformed amount and an
\* unknown kind.
Payloads ==
    {<<"b", "u", "y", ":">> \o credits \o <<":">> \o str(70),
     <<"b", "u", "y", ":">> \o credits \o <<":", "x">>,
     <<"b", "u", "y", ":", "g", "e", "m", "s", ":">> \o str(70)}

\* Invoice payloads: 100 credits (bonus 20), 4 credits (bonus 0), and four
\* that are not `buy:credits:<integer>`: a word for the amount, another
\* kind, two fields, four fields.
CreditsPayload(amount) ==
    <<"b", "u", "y", ":">> \o credits \o <<":">> \o str(amount)

PurchaseAmounts == {4, 100}

MalformedPayloads ==
    {<<"b", "u", "y", ":">> \o credits \o <<":", "x">>,
     <<"b", "u", "y", ":", "g", "e", "m", "s", ":">> \o str(100),
     credits \o <<":">> \o str(100),
     CreditsPayload(100) \o <<":">> \o str(50)}

PurchasePayloads ==
    {CreditsPayload(a) : a \in PurchaseAmounts} \cup MalformedPayloads

\* The parse of every payload that comes in, worked out once.
parsed_payload == [p \in Payloads \cup PurchasePayloads |-> parse_payload(p)]

\* The referrer looked up as the top of the purchaser's referral chain.
purchase_referrer_root(db, db_user) ==
    LET up == {a \in Ancestors(db, db_user.telegram_id, Cardinality(DOMAIN db)) :
                  get_user(db, a) # NoUser /\ db[a].referred_by_id = None}
    IN  IF up = {} THEN NoUser ELSE db[CHOOSE a \in up : TRUE]

\* if db_user.referred_by_id: referrer = await get_user(session, ...).
purchase_referrer(db, db_user) ==
    IF db_user.referred_by_id # None
    THEN get_user(db, db_user.referred_by_id)
    ELSE NoUser

\* bot.send_message to the referrer outside a try block: a failure leaves
\* the handler as an exception.
notify_referrer_unprotected(delivery) ==
    [notification |-> delivery, raised |-> delivery = "failed"]

\* try: await bot.send_message(chat_id=referrer.telegram_id, ...)
\* except Exception: logged.
notify_referrer(delivery) ==
    [notification |-> delivery, raised |-> FALSE]

\* How bot.send_message to the referrer may end.
Deliveries == {"sent", "failed"}

\* What success_payment_handler does on the middleware's table and row: the
\* table after it, the reply to the purchaser, what became of the referrer's
\* notification, the purchase that was completed (if one was), and whether
\* an exception left the handler.
success_payment(db, db_user, payload, delivery) ==
    LET parsed == parsed_payload[payload]
        quiet == [notification |-> "none", raised |-> FALSE]
    IN
    IF parsed = Nothing
    THEN [db |-> db, reply |-> "credit_error_contact_support",
          purchase |-> Nothing, end |-> quiet]
    ELSE IF parsed[1].type # credits
    THEN [db |-> db, reply |-> "kind_error_contact_support",
          purchase |-> Nothing, end |-> quiet]
    ELSE LET amount == parsed[1].amount
             paid == add_credits(db, db_user.telegram_id, amount)
             referrer == purchase_referrer(paid.db, db_user)
             bonus == bonus_amount(amount)
             purchase == IF paid.result
                         THEN Some(<<db_user.telegram_id, amount>>)
                         ELSE Nothing
         IN  IF referrer # NoUser /\ bonus_due(bonus)
             THEN [db |-> add_referral_earnings(
                              add_credits(paid.db, referrer.telegram_id,
                                          bonus).db,
                              referrer.telegram_id, bonus).db,
                   reply |-> "credited", purchase |-> purchase,
                   end |-> notify_referrer(delivery)]
             ELSE [db |-> paid.db, reply |-> "credited",
                   purchase |-> purchase, end |-> quiet]

\* A message carrying successful_payment.  The payment router comes last and
\* every conversation state has a catch-all message handler in the card or
\* photo router, so the handler is reached outside a conversation only.
success_payment_handler(u, payload, delivery) ==
    /\ Accept
    /\ state[u] = NoState
    /\ LET mw == DbSessionMiddleware(users, u)
           run == success_payment(mw.db, mw.user, payload, delivery)
       IN  /\ users' = run.db
           /\ purchases' = IF run.purchase = Nothing THEN purchases
                           ELSE purchases (+) SetToBag({run.purchase[1]})
           /\ outcome' = [handler |-> "success_payment_handler", uid |-> u,
                          arg |-> Some(payload), reply |-> run.reply,
                          link |-> Nothing,
                          notification |-> run.end.notification,
                          raised |-> run.end.raised]
    /\ flow' = IdleFlow
    /\ UNCHANGED <<state, data, last, nops, store, sess>>

\* Registrations of three identities as direct calls, with any referrer
\* argument, followed by their payments in any order.
NextPurchase ==
    \/ /\ nops < MaxRegistrations
       /\ outcome = NoOutcome
       /\ CallGetOrCreateUserAmong(Members)
    \/ \E u \in Members, p \in PurchasePayloads, d \in Deliveries :
          /\ BagCardinality(purchases) < MaxPurchases
          /\ success_payment_handler(u, p, d)

SpecPurchase == Init /\ [][NextPurchase]_vars

\* A purchase is taken up while the purchaser's lifetime total is below the
\* cap.
CanPurchase(u) ==
    u \in DOMAIN users =>
        users[u].credits_remaining + users[u].credits_used < MaxBalance

\* Registrations (with any referrer argument) and debits as direct calls,
\* and the referral and purchase handlers, in any order.
NextReferral ==
    \/ nops < MaxDirect /\ CallGetOrCreateUser
    \/ nops < MaxDirect /\ CallUseCreditsOf({PHOTO_GENERATION_COST})
    \/ \E u \in Ids, a \in StartArgs : start_command(u, a)
    \/ \E u \in Ids : referral_command(u)
    \/ \E u \in Ids : show_referral_menu_callback(u)
    \/ \E u \in Ids, p \in Payloads :
          CanPurchase(u) /\ \E d \in Deliveries :
                               success_payment_handler(u, p, d)

SpecReferral == Init /\ [][NextReferral]_vars

\* ------------------------------------------------- a failing earnings step
\* add_referral_earnings leaving as an exception (the SELECT or the commit
\* fails): nothing of it is committed.
add_referral_earnings_raising(db, user_id, amount) ==
    [db |-> db, raised |-> TRUE]

\* A session under which the handler's work is one transaction: an
\* exception takes the table back to what it was on entry.
session_exit_atomic(entry, committed) == entry

\* async with self.session_pool() as session, left by an exception: the
\* session is closed, and what each crud call committed stays.
session_exit(entry, committed) == committed

\* success_payment_handler when the referrer's bonus is due and
\* add_referral_earnings raises after add_credits has paid it: the purchaser
\* was answered, the notification is never reached, the exception leaves
\* through the middleware.
success_payment_handler_earnings_fail(u, payload) ==
    /\ Accept
    /\ state[u] = NoState
    /\ parsed_payload[payload] # Nothing
    /\ parsed_payload[payload][1].type = credits
    /\ LET mw == DbSessionMiddleware(users, u)
           amount == parsed_payload[payload][1].amount
           paid == add_credits(mw.db, u, amount)
           referrer == purchase_referrer(paid.db, mw.user)
           bonus == bonus_amount(amount)
       IN  /\ referrer # NoUser
           /\ bonus_due(bonus)
           /\ users' = session_exit(mw.db,
                  add_referral_earnings_raising(
                      add_credits(paid.db, referrer.telegram_id, bonus).db,
                      referrer.telegram_id, bonus).db)
           /\ purchases' = IF paid.result
                           THEN purchases (+) SetToBag({<<u, amount>>})
                           ELSE purchases
           /\ outcome' = [handler |-> "success_payment_handler", uid |-> u,
                          arg |-> Some(payload), reply |-> "credited",
                          link |-> Nothing, notification |-> "none",
                          raised |-> TRUE]
    /\ flow' = IdleFlow
    /\ UNCHANGED <<state, data, last, nops, store, sess>>

\* Registrations of three identities as direct calls, with any referrer
\* argument, followed by their payments in any order, the earnings step of
\* a payment failing or not.
NextFailure ==
    \/ /\ nops < MaxRegistrations
       /\ outcome = NoOutcome
       /\ CallGetOrCreateUserAmong(Members)
    \/ \E u \in Members, p \in PurchasePayloads, d \in Deliveries :
          /\ BagCardinality(purchases) < MaxPurchases
          /\ success_payment_handler(u, p, d)
    \/ \E u \in Members, p \in PurchasePayloads :
          /\ BagCardinality(purchases) < MaxPurchases
          /\ success_payment_handler_earnings_fail(u, p)

SpecFailure == Init /\ [][NextFailure]_vars

\* ------------------------------------------------------ menus and invoices
\* /menu: the balance and the referral statistics are read and shown.
menu_command(u) ==
    /\ count_referrals(DbSessionMiddleware(users, u).db, u) >= 0
    /\ Replied(u)

\* The show_main_menu and back_to_main_menu buttons call menu_command.
show_main_menu_callback(u) == menu_command(u)
back_to_main_menu_callback(u) == menu_command(u)

\* /buy_credits: the payment router comes last, so inside a conversation the
\* message is taken by the card or photo router as a text.
buy_credits_command(u) ==
    /\ state[u] = NoState
    /\ Replied(u)

\* The show_buy_menu button.
show_buy_menu_callback(u) == Replied(u)

\* The buttons of the purchase menu, and a callback with a field missing.
InvoiceCallbacks ==
    {CreditsPayload(70) \o <<":">> \o str(50), CreditsPayload(70)}

\* send_invoice_handler up to its reply: callback.data is
\* buy:credits:<amount>:<price>; anything else is answered with an alert.
send_invoice(callback_data) ==
    LET pieces == split(callback_data, ":") IN
    IF Len(pieces) # 4 \/ int(pieces[3]) = Nothing \/ int(pieces[4]) = Nothing
    THEN "retry_alert"
    ELSE IF pieces[2] # credits THEN "unknown_type_alert"
    ELSE "invoice"

invoice_reply == [c \in InvoiceCallbacks |-> send_invoice(c)]

\* send_invoice_handler writing the amount to the balance when the invoice
\* goes out.
send_invoice_handler_crediting(u, callback_data) ==
    /\ Accept
    /\ users' = add_credits(DbSessionMiddleware(users, u).db, u, 70).db
    /\ outcome' = [NoOutcome EXCEPT !.handler = "send_invoice_handler",
                                    !.uid = u,
                                    !.arg = Some(callback_data),
                                    !.reply = invoice_reply[callback_data]]
    /\ flow' = IdleFlow
    /\ UNCHANGED <<state, data, last, nops, purchases, store, sess>>

\* A buy:credits:... button: the invoice is sent, nothing is stored.
send_invoice_handler(u, callback_data) ==
    /\ Accept
    /\ users' = DbSessionMiddleware(users, u).db
    /\ outcome' = [NoOutcome EXCEPT !.handler = "send_invoice_handler",
                                    !.uid = u,
                                    !.arg = Some(callback_data),
                                    !.reply = invoice_reply[callback_data]]
    /\ flow' = IdleFlow
    /\ UNCHANGED <<state, data, last, nops, purchases, store, sess>>

\* pre_checkout_query: answered ok=True.  The session middleware is set on
\* messages and callback queries only, so no row is fetched or created.
pre_checkout_handler(u) ==
    /\ Accept
    /\ flow' = IdleFlow
    /\ UNCHANGED <<users, state, data, last, nops, aux>>

\* The handlers that are not ledger operations, for one sender.
Menus(u) ==
    \/ menu_command(u)
    \/ show_main_menu_callback(u)
    \/ back_to_main_menu_callback(u)
    \/ buy_credits_command(u)
    \/ show_buy_menu_callback(u)
    \/ \E c \in InvoiceCallbacks : send_invoice_handler(u, c)
    \/ pre_checkout_handler(u)
    \/ referral_command(u)

\* The data-collection steps of the two flows, the replies to messages of
\* the wrong type and the two cancel buttons, for one sender.
Collecting(u) ==
    \/ callback_start_card_generation(u)
    \/ \E f \in FileIds : process_card_photo(u, f)
    \/ process_card_photo_error(u)
    \/ \E t \in Texts : process_characteristics(u, t)
    \/ process_characteristics_error(u)
    \/ \E t \in Texts : process_target_audience(u, t)
    \/ process_target_audience_error(u)
    \/ process_selling_points_error(u)
    \/ callback_cancel_card_generation(u)
    \/ callback_start_photo_processing(u)
    \/ \E f \in FileIds : process_photo(u, f)
    \/ process_photo_error(u)
    \/ callback_photos_done(u)
    \/ process_prompt_error(u)
    \/ callback_cancel_photo_processing(u)

\* The handlers that are not ledger operations, taken in any order by the
\* chatters, with debits of the rows made by direct calls in between.
NextFrame ==
    \/ nops < MaxDirect /\ CallUseCreditsOf({PHOTO_GENERATION_COST})
    \/ \E u \in Ids : support_command(u)
    \/ \E u \in Chatters : Collecting(u)
    \/ \E u \in Chatters : Menus(u)

SpecFrame == Init /\ [][NextFrame]_vars

\* ------------------------------------------------ overlapping crud calls
\* Calls made in sessions of their own, interleaved at their awaits: the
\* SELECT of get_user, the referrer's SELECT, and the commit.  The table is
\* a sequence of rows (the position is the primary key id); a session keeps
\* the row it loaded and writes what it computed from it.
RaceAmounts == {40, 70}

\* The positions of the rows carrying this telegram_id.
rows_of(table, telegram_id) ==
    {i \in DOMAIN table : table[i].telegram_id = telegram_id}

\* get_user: select(User).where(User.telegram_id == telegram_id),
\* scalar_one_or_none().
select_user(table, telegram_id) ==
    IF rows_of(table, telegram_id) = {} THEN NoUser
    ELSE table[CHOOSE i \in rows_of(table, telegram_id) :
                  \A j \in rows_of(table, telegram_id) : i <= j]

\* An INSERT into a table that has no uniqueness constraint.
insert_unconstrained(table, row) ==
    [table |-> Append(table, row), rejected |-> FALSE]

\* session.add(new_user); commit(): the INSERT.  telegram_id is declared
\* unique=True, so a second row with the same value is rejected and the
\* commit raises IntegrityError.
insert(table, row) ==
    IF rows_of(table, row.telegram_id) # {}
    THEN [table |-> table, rejected |-> TRUE]
    ELSE [table |-> Append(table, row), rejected |-> FALSE]

\* The commit after user.credits_remaining -= / += amount:
\* UPDATE users SET credits_remaining = ?, credits_used = ? WHERE id = ?
\* with the values computed in Python from the loaded row.
update_credits(table, seen, credits_remaining, credits_used) ==
    [i \in DOMAIN table |->
        IF table[i].telegram_id = seen.telegram_id
        THEN [table[i] EXCEPT !.credits_remaining = credits_remaining,
                              !.credits_used = credits_used]
        ELSE table[i]]

Mutations == {"use_credits", "add_credits"}

\* What the two gated flows cost.
FlowCosts == {CARD_GENERATION_COST, PHOTO_GENERATION_COST}

\* The calls that write credits_remaining: the two mutations called on
\* their own, and a gated flow (which calls use_credits on its way).
Writers == Mutations \cup {"gated_flow"}

\* The change a successful mutation means to make to credits_remaining.
delta(session) ==
    IF session.op \in {"use_credits", "gated_flow"}
    THEN 0 - session.arg ELSE session.arg

untouched == <<users, last, nops, state, data, flow, outcome, purchases>>

\* A call begins in a fresh session.  A gated flow is the last event of a
\* conversation whose earlier events each went through the middleware, so
\* its user has a row.
open_session(s) ==
    /\ sess[s].pc = "closed"
    /\ \/ \E id \in Ids, r \in Ids \cup {None} :
             sess' = [sess EXCEPT ![s] = [NoSession EXCEPT
                         !.pc = "select", !.op = "get_or_create_user",
                         !.telegram_id = id, !.arg = r]]
       \/ \E id \in Ids, a \in RaceAmounts, op \in Mutations :
             sess' = [sess EXCEPT ![s] = [NoSession EXCEPT
                         !.pc = "select", !.op = op,
                         !.telegram_id = id, !.arg = a]]
       \/ \E id \in Ids, cost \in FlowCosts :
             /\ select_user(store, id) # NoUser
             /\ sess' = [sess EXCEPT ![s] = [NoSession EXCEPT
                         !.pc = "select", !.op = "gated_flow",
                         !.telegram_id = id, !.arg = cost]]
    /\ UNCHANGED <<store, untouched>>

\* await get_user(session, telegram_id) returns; the code up to the next
\* await runs.  For a gated flow this is the middleware's load of db_user
\* and the flow's own test of db_user.credits_remaining; the get_user inside
\* its use_credits gives the same loaded object, whose attributes the
\* session does not read again.
session_select(s) ==
    /\ sess[s].pc = "select"
    /\ LET me == sess[s]
           row == select_user(store, me.telegram_id)
           read == [me EXCEPT !.seen = row]
       IN  sess' = [sess EXCEPT ![s] =
             CASE me.op = "get_or_create_user" ->
                    IF row # NoUser
                    THEN [read EXCEPT !.pc = "done", !.result = "returned"]
                    ELSE IF me.arg # None /\ me.arg # me.telegram_id
                    THEN [read EXCEPT !.pc = "lookup"]
                    ELSE [read EXCEPT !.pc = "insert", !.arg = None]
               [] me.op = "use_credits" ->
                    IF row # NoUser /\ row.credits_remaining >= me.arg
                    THEN [read EXCEPT !.pc = "commit"]
                    ELSE [read EXCEPT !.pc = "done", !.result = "False"]
               [] me.op = "add_credits" ->
                    IF row # NoUser /\ me.arg > 0
                    THEN [read EXCEPT !.pc = "commit"]
                    ELSE [read EXCEPT !.pc = "done", !.result = "False"]
               [] me.op = "gated_flow" ->
                    IF row.credits_remaining < me.arg
                    THEN [read EXCEPT !.pc = "done",
                                      !.result = "insufficient"]
                    ELSE [read EXCEPT !.pc = "commit"]]
    /\ UNCHANGED <<store, untouched>>

\* get_or_create_user: await get_user(session, referrer_id) returns.
session_lookup(s) ==
    /\ sess[s].pc = "lookup"
    /\ sess' = [sess EXCEPT ![s] = [@ EXCEPT
                   !.pc = "insert",
                   !.arg = IF select_user(store, sess[s].arg) # NoUser
                           THEN @ ELSE None]]
    /\ UNCHANGED <<store, untouched>>

\* get_or_create_user: session.add(new_user); await session.commit().
session_insert(s) ==
    /\ sess[s].pc = "insert"
    /\ LET me == sess[s]
           new_user == User(me.telegram_id, "a",
                            IF me.arg # None THEN 225 ELSE 125, me.arg)
           done == insert(store, new_user)
       IN  /\ store' = done.table
           /\ sess' = [sess EXCEPT ![s] =
                 IF done.rejected
                 THEN [me EXCEPT !.pc = "done", !.result = "IntegrityError",
                                 !.rejected = TRUE]
                 ELSE [me EXCEPT !.pc = "done", !.result = "returned",
                                 !.seen = new_user, !.created = TRUE]]
    /\ UNCHANGED untouched

\* use_credits / add_credits: the attribute changes and await
\* session.commit().  The UPDATE sets the attributes that were changed:
\* add_credits leaves credits_used to the table.  raced: the other sessions that have loaded this row
\* for a mutation and not yet committed.
session_commit(s) ==
    /\ sess[s].pc = "commit"
    /\ LET me == sess[s]
           used == IF me.op \in {"use_credits", "gated_flow"}
                   THEN me.seen.credits_used + me.arg
                   ELSE select_user(store, me.telegram_id).credits_used
       IN  /\ store' = update_credits(store, me.seen,
                          me.seen.credits_remaining + delta(me), used)
           /\ sess' = [sess EXCEPT ![s] = [me EXCEPT
                         !.pc = IF me.op = "gated_flow"
                                THEN "call" ELSE "done",
                         !.result = "True",
                         !.raced = {o \in Sessions \ {s} :
                                      /\ sess[o].pc = "commit"
                                      /\ sess[o].telegram_id = me.telegram_id}]]
    /\ UNCHANGED untouched

\* A gated flow after its use_credits: aio_session.post(endpoint, ...), the
\* external service is invoked.
session_call(s) ==
    /\ sess[s].pc = "call"
    /\ sess' = [sess EXCEPT ![s] = [@ EXCEPT !.pc = "done",
                                             !.result = "invoked"]]
    /\ UNCHANGED <<store, untouched>>

NextRace ==
    \/ \E s \in Sessions : open_session(s)
    \/ \E s \in Sessions : session_select(s)
    \/ \E s \in Sessions : session_lookup(s)
    \/ \E s \in Sessions : session_insert(s)
    \/ \E s \in Sessions : session_commit(s)
    \/ \E s \in Sessions : session_call(s)

SpecRace == Init /\ [][NextRace]_vars

\* ================================================================ claims
\* The acting user's row during and after a gated flow.
Acting == users[flow.uid]

\* C1: for every user credits_remaining >= 0 in every reachable state, after
\* any sequence of get_or_create_user, use_credits, add_credits and
\* add_referral_earnings calls, whatever integer amounts are passed.
C1_CreditsNonNegative ==
    \A id \in DOMAIN users : users[id].credits_remaining >= 0

\* A debit was refused on an empty balance: the case the check is there for.
C1_Witness ==
    /\ last.op = "use_credits"
    /\ last.id \in DOMAIN users
    /\ last.arg > 0
    /\ ~last.result
    /\ users[last.id].credits_remaining = 0
    /\ users[last.id].credits_used = 125

\* C2: a paid action of cost C (card 1, photo 40) requested with a balance
\* below C reports insufficient funds with needed = C and have = balance,
\* leaves the balance unchanged and ends the flow without the service being
\* invoked.
C2_InsufficientFunds ==
    [][(Accept /\ flow'.kind # "none") =>
          LET u == flow'.uid
              C == IF flow'.kind = "card" THEN 1 ELSE 40
          IN  /\ flow'.cost = C
              /\ users[u].credits_remaining < C =>
                    /\ flow'.outcome = "insufficient"
                    /\ flow'.needed = C
                    /\ flow'.have = users[u].credits_remaining
                    /\ users'[u] = users[u]
                    /\ flow'.pc = "done"
                    /\ ~flow'.called
                    /\ ~flow'.debited]_vars

\* The photo gate at balance 39: needed 40, have 39, balance still 39.
C2_Witness ==
    /\ flow.kind = "photo"
    /\ flow.pc = "done"
    /\ flow.outcome = "insufficient"
    /\ flow.needed = 40
    /\ flow.have = 39
    /\ ~flow.called
    /\ Acting.credits_remaining = 39

\* C3: in every gated flow the cost has been subtracted from the acting
\* user's balance before the request to the generation service is issued.
C3_DebitBeforeCall ==
    (flow.pc = "call" \/ flow.called) =>
        /\ flow.debited
        /\ Acting.credits_remaining = flow.pre_remaining - flow.cost

\* The request of a photo flow has been issued.
C3_Witness ==
    /\ flow.kind = "photo"
    /\ flow.called
    /\ flow.pc = "finally"
    /\ Acting.credits_remaining = flow.pre_remaining - 40

\* C4: once a gated flow has debited C, its balance at the end of the flow
\* is the balance before the flow minus C, whatever the service did: no
\* outcome refunds the debit.
C4_NoRefund ==
    (flow.pc \in {"finally", "done"} /\ flow.debited) =>
        /\ Acting.credits_remaining = flow.pre_remaining - flow.cost
        /\ Acting.credits_used = flow.pre_used + flow.cost

\* A card flow that ended on a failure of the service, the credit spent.
C4_Witness ==
    /\ flow.kind = "card"
    /\ flow.pc = "done"
    /\ flow.debited
    /\ flow.response = "http_error"
    /\ Acting.credits_remaining = flow.pre_remaining - 1

\* C5: with cost 1 and balance 1, when the call to the service times out the
\* balance becomes 0 and the outcome reported is "unreachable", the outcome
\* of a network failure.
C5_TimeoutIsUnreachable ==
    (/\ flow.pc = "done"
     /\ flow.cost = 1
     /\ flow.pre_remaining = 1
     /\ flow.response = "timeout") =>
        /\ Acting.credits_remaining = 0
        /\ flow.outcome = "unreachable"

\* C6: a gated flow in which the service was never called (insufficient
\* balance, collected data missing) leaves credits_remaining and
\* credits_used of the acting user as they were at its start.
C6_NoCallNoDebit ==
    (flow.kind # "none" /\ flow.pc = "done" /\ ~flow.called) =>
        /\ Acting.credits_remaining = flow.pre_remaining
        /\ Acting.credits_used = flow.pre_used

\* A card flow stopped by incomplete data although the balance sufficed.
C6_Witness ==
    /\ flow.kind = "card"
    /\ flow.pc = "done"
    /\ flow.outcome = "missing_data"
    /\ flow.pre_remaining >= 1
    /\ ~flow.called

\* C7: every gated flow ends, whatever the service does and on the
\* insufficient-funds and missing-data exits, and when it has ended the
\* user's conversation state is cleared.
C7_FlowEndsCleared ==
    /\ [](flow.pc = "done" =>
            state[flow.uid] = NoState /\ data[flow.uid] = EmptyDict)
    /\ (flow.pc \in {"debit", "call", "finally"} ~> flow.pc = "done")

\* A flow that ended after the call timed out.
C7_Witness ==
    /\ flow.pc = "done"
    /\ flow.response = "timeout"
    /\ state[flow.uid] = NoState

\* C8: use_credits(id, amount) returns false and changes no row when the
\* user is unknown or credits_remaining < amount; otherwise it returns true,
\* credits_remaining decreases by amount, credits_used increases by amount
\* and no other row changes.
C8_UseCreditsContract ==
    [][(last'.op = "use_credits" /\ nops' = nops + 1) =>
          LET id == last'.id
              amount == last'.arg
          IN  IF id \notin DOMAIN users \/ users[id].credits_remaining < amount
              THEN ~last'.result /\ users' = users
              ELSE /\ last'.result
                   /\ DOMAIN users' = DOMAIN users
                   /\ users'[id].credits_remaining =
                          users[id].credits_remaining - amount
                   /\ users'[id].credits_used =
                          users[id].credits_used + amount
                   /\ users'[id].referral_earnings =
                          users[id].referral_earnings
                   /\ users'[id].referred_by_id = users[id].referred_by_id
                   /\ users'[id].username = users[id].username
                   /\ \A o \in DOMAIN users \ {id} : users'[o] = users[o]]_vars

\* A successful debit of a positive amount with another user present.
C8_Witness ==
    /\ last.op = "use_credits"
    /\ last.result
    /\ last.arg = 40
    /\ DOMAIN users = Ids
    /\ users[last.id].credits_used = 40

\* C9: credits_used of every user never decreases, whatever integer amount
\* is passed to a ledger operation (zero and negative ones included).
C9_CreditsUsedMonotone ==
    [][\A id \in DOMAIN users :
          users'[id].credits_used >= users[id].credits_used]_vars

\* C10: add_credits(id, amount) with amount > 0 fails only for an unknown
\* user; on success credits_remaining increases by amount and credits_used
\* and referral_earnings keep their values; with amount <= 0 it returns
\* false and changes nothing.
C10_AddCreditsContract ==
    [][(last'.op = "add_credits" /\ nops' = nops + 1) =>
          LET id == last'.id
              amount == last'.arg
          IN  IF id \notin DOMAIN users \/ amount <= 0
              THEN ~last'.result /\ users' = users
              ELSE /\ last'.result
                   /\ users' = [users EXCEPT
                         ![id].credits_remaining = @ + amount]]_vars

\* A successful credit to a user who had already spent credits.
C10_Witness ==
    /\ last.op = "add_credits"
    /\ last.result
    /\ last.arg = 40
    /\ users[last.id].credits_used = 125
    /\ users[last.id].credits_remaining = 40

\* A step of SpecLedger that is a call of the named crud function.
Called(op) == nops' = nops + 1 /\ last'.op = op

\* C11: add_referral_earnings(id, amount) with amount > 0 on a known user
\* adds exactly amount to referral_earnings and leaves every other column of
\* that row, credits_remaining and credits_used among them, and every other
\* row as they were; with amount > 0 it returns False, changing nothing,
\* exactly when the user is unknown.
C11_AddReferralEarningsContract ==
    [][(Called("add_referral_earnings") /\ last'.arg > 0) =>
          IF last'.id \in DOMAIN users
          THEN /\ last'.result = TRUE
               /\ users' = [users EXCEPT ![last'.id].referral_earnings =
                                             @ + last'.arg]
               /\ users'[last'.id].credits_remaining =
                      users[last'.id].credits_remaining
               /\ users'[last'.id].credits_used = users[last'.id].credits_used
          ELSE /\ last'.result = FALSE
               /\ users' = users]_vars

\* Earnings were added to a user who had spent credits before: the balance
\* and the spend counter are visibly not the freshly created ones.
C11_Witness ==
    /\ last.op = "add_referral_earnings"
    /\ last.arg = 40
    /\ last.result = TRUE
    /\ last.before.credits_used = 40
    /\ users[last.id].referral_earnings = last.before.referral_earnings + 40
    /\ users[last.id].credits_remaining = 85

\* C12: has_credits(id, amount) returns True exactly when the user exists
\* and credits_remaining >= amount; for an unknown user or a smaller balance
\* it returns False; in every case the table is left as it was.
C12_HasCreditsContract ==
    [][Called("has_credits") =>
          /\ users' = users
          /\ last'.result =
                (/\ last'.id \in DOMAIN users
                 /\ users[last'.id].credits_remaining >= last'.arg)]_vars

\* The boundary: the balance equals the amount asked for.
C12_Witness ==
    /\ last.op = "has_credits"
    /\ last.id \in DOMAIN users
    /\ users[last.id].credits_remaining = last.arg
    /\ last.arg > 0
    /\ last.result = TRUE

\* C13: when use_credits(id, amount) with amount > 0 succeeds on a balance
\* of exactly amount, has_credits(id, amount) called right after it returns
\* False, the balance then being 0.
C13_ExactDebitThenInsufficient ==
    [][(/\ last.op = "use_credits"
        /\ last.result = TRUE
        /\ last.arg > 0
        /\ last.before.credits_remaining = last.arg
        /\ Called("has_credits")
        /\ last'.id = last.id
        /\ last'.arg = last.arg) =>
          /\ last'.result = FALSE
          /\ users[last.id].credits_remaining = 0]_vars

\* Three calls in all: the user was created, debited the exact balance of
\* 125, and has_credits has just answered.
C13_Witness ==
    /\ nops = 3
    /\ last.op = "has_credits"
    /\ last.arg = 125
    /\ last.result = FALSE
    /\ last.before # NoUser
    /\ last.before.credits_remaining = 0
    /\ last.before.credits_used = 125

\* C14: use_credits, add_credits and add_referral_earnings never create a
\* row: the set of identities in the table is the same after the call, and
\* with an identity that has no row they return False and change nothing.
C14_UnknownUserNotCreated ==
    [][(\/ Called("use_credits")
        \/ Called("add_credits")
        \/ Called("add_referral_earnings")) =>
          /\ DOMAIN users' = DOMAIN users
          /\ last'.id \notin DOMAIN users =>
                (last'.result = FALSE /\ users' = users)]_vars

\* add_credits with a positive amount was refused for an identity that has
\* no row, while another identity has one.
C14_Witness ==
    /\ last.op = "add_credits"
    /\ last.arg = 40
    /\ last.before = NoUser
    /\ last.id \notin DOMAIN users
    /\ DOMAIN users # {}
    /\ last.result = FALSE

\* The row a recorded get_or_create_user call handed back, given the table
\* it was made on and the display name the caller carried.
Returned(db, call) ==
    LET name == CHOOSE n \in Names :
                    get_or_create_user(db, [id |-> call.id, username |-> n],
                                       call.arg).db = users'
    IN  get_or_create_user(db, [id |-> call.id, username |-> name],
                           call.arg).user

\* C15: get_or_create_user on an identity that has a row leaves
\* credits_remaining, credits_used, referral_earnings and referred_by_id
\* (and referral_link) of that row as they were, whatever referrer is
\* passed; only the display name may change, no other row changes, and the
\* row handed back is the stored one.
C15_ExistingUserUntouched ==
    [][(Called("get_or_create_user") /\ last'.id \in DOMAIN users) =>
          /\ \E n \in Names :
                users' = [users EXCEPT ![last'.id].username = n]
          /\ users'[last'.id].credits_remaining =
                 users[last'.id].credits_remaining
          /\ users'[last'.id].credits_used = users[last'.id].credits_used
          /\ users'[last'.id].referral_earnings =
                 users[last'.id].referral_earnings
          /\ users'[last'.id].referred_by_id =
                 users[last'.id].referred_by_id
          /\ Returned(users, last') = users'[last'.id]]_vars

\* An unreferred user who has a row is fetched again, under a new name and
\* with the identity of an existing other user as referrer.
C15_Witness ==
    /\ last.op = "get_or_create_user"
    /\ last.before # NoUser
    /\ last.before.username # users[last.id].username
    /\ last.arg \in DOMAIN users
    /\ last.arg # last.id
    /\ users[last.id].referred_by_id = None
    /\ users[last.id].credits_remaining = 125

\* C16: get_or_create_user creating a row with a referrer that has a row
\* and is another identity gives the balance 225 and referred_by_id = the
\* referrer; with the new identity itself as referrer it gives 125 and no
\* referred_by_id.  Either way every row that was there is unchanged.
C16_ReferredRegistration ==
    [][(Called("get_or_create_user") /\ last'.id \notin DOMAIN users) =>
          /\ (last'.arg \in DOMAIN users /\ last'.arg # last'.id) =>
                /\ users'[last'.id].credits_remaining = 225
                /\ users'[last'.id].referred_by_id = last'.arg
          /\ last'.arg = last'.id =>
                /\ users'[last'.id].credits_remaining = 125
                /\ users'[last'.id].referred_by_id = None
          /\ \A id \in DOMAIN users : users'[id] = users[id]]_vars

\* A row has just been created with an existing other user as referrer.
C16_Witness ==
    /\ last.op = "get_or_create_user"
    /\ last.before = NoUser
    /\ last.arg \in DOMAIN users
    /\ last.arg # last.id
    /\ users[last.id].referred_by_id = last.arg
    /\ users[last.id].credits_remaining = 225
    /\ users[last.id].credits_used = 0

\* C17: get_or_create_user creating a row with a referrer identity that has
\* no row creates it as an ordinary registration, balance 125 and no
\* referred_by_id, and hands back the row it stored.
C17_UnknownReferrerIgnored ==
    [][(/\ Called("get_or_create_user")
        /\ last'.id \notin DOMAIN users
        /\ last'.arg # None
        /\ last'.arg \notin DOMAIN users) =>
          /\ Returned(users, last') = users'[last'.id]
          /\ DOMAIN users' = DOMAIN users \cup {last'.id}
          /\ users'[last'.id].credits_remaining = 125
          /\ users'[last'.id].credits_used = 0
          /\ users'[last'.id].referred_by_id = None]_vars

\* A row has just been created for an identity that named as referrer
\* another identity, which has no row.
C17_Witness ==
    /\ last.op = "get_or_create_user"
    /\ last.before = NoUser
    /\ last.arg # None
    /\ last.arg # last.id
    /\ last.arg \notin DOMAIN users
    /\ last.id \in DOMAIN users
    /\ users[last.id].credits_remaining = 125

\* C18: when /start with the referral code of an existing other user r is
\* the first event of user u, then after the middleware and the handler u is
\* registered with referred_by_id = r and the balance 225.
C18_FirstStartLinksReferrer ==
    [][\A u \in Ids, r \in Ids :
          (/\ u \notin DOMAIN users
           /\ r \in DOMAIN users
           /\ r # u
           /\ start_command(u, Some(referral_code(r)))) =>
             /\ users'[u].referred_by_id = r
             /\ users'[u].credits_remaining = 225]_vars

\* C19: referred_by_id of a row never changes once the row exists, whatever
\* is handled afterwards (/start with any code, purchases, debits, referral
\* link requests, further get_or_create_user calls), and it never names the
\* row's own identity.
C19_ReferredByFixed ==
    /\ [][\A id \in DOMAIN users :
             /\ id \in DOMAIN users'
             /\ users'[id].referred_by_id = users[id].referred_by_id]_vars
    /\ [](\A id \in DOMAIN users : users[id].referred_by_id # id)

\* A referred user has since asked for a referral link, spent credits and
\* bought credits; the referrer has the bonus of that purchase.
C19_Witness ==
    \E id \in DOMAIN users :
        /\ users[id].referred_by_id \in DOMAIN users
        /\ TruthyText(users[id].referral_link)
        /\ users[id].credits_used > 0
        /\ users[id].credits_remaining + users[id].credits_used = 225 + 70
        /\ users[users[id].referred_by_id].referral_earnings = 14

\* C20: the referred_by_id links form a forest: a row has one referred_by_id
\* value; if it is set it names an identity that has a row, and had one
\* before this row was created; following the links from a row never comes
\* back to it.
C20_ReferredByForest ==
    /\ [](\A id \in DOMAIN users :
             /\ users[id].referred_by_id # None =>
                    users[id].referred_by_id \in DOMAIN users
             /\ id \notin Ancestors(users, id, Cardinality(DOMAIN users)))
    /\ [][\A id \in DOMAIN users' \ DOMAIN users :
             users'[id].referred_by_id # None =>
                users'[id].referred_by_id \in DOMAIN users]_vars

\* A chain of two links: a user referred by a user who was referred.
C20_Witness ==
    \E id \in DOMAIN users :
        /\ Cardinality(Ancestors(users, id, Cardinality(DOMAIN users))) = 2
        /\ last.op = "get_or_create_user"
        /\ last.id = id
        /\ last.before = NoUser

\* C21: however get_or_create_user calls for one identity interleave, each
\* in a session of its own, the table never has two rows with that
\* telegram_id, and at most one of the calls created a row (and with it
\* granted a starting balance).
C21_OneRowPerIdentity ==
    \A id \in Ids :
        /\ Cardinality(rows_of(store, id)) <= 1
        /\ Cardinality({s \in Sessions :
                           sess[s].created /\ sess[s].telegram_id = id}) <= 1

\* Two calls for the same identity both found no row; one has created the
\* row and the other's insert was attempted.
C21_Witness ==
    \E s, o \in Sessions :
        /\ s # o
        /\ sess[s].op = "get_or_create_user"
        /\ sess[o].op = "get_or_create_user"
        /\ sess[s].telegram_id = sess[o].telegram_id
        /\ sess[s].created
        /\ sess[o].pc = "done"
        /\ sess[o].seen = NoUser
        /\ Cardinality(rows_of(store, sess[s].telegram_id)) = 1

\* C22: a get_or_create_user call that found no row and whose insert was
\* rejected by the uniqueness constraint ends by returning the row the
\* other call created.
C22_LoserRefetches ==
    \A s \in Sessions :
        sess[s].rejected =>
            /\ sess[s].result = "returned"
            /\ sess[s].seen = select_user(store, sess[s].telegram_id)

\* C23: when two mutations of one row (use_credits and/or add_credits, each
\* in a session of its own) have each loaded the row before the other
\* committed and both returned True, and nothing else has written the row,
\* credits_remaining is the loaded value plus both deltas.
C23_NoLostUpdate ==
    \A s, o \in Sessions :
        (/\ o \in sess[s].raced
         /\ sess[s].result = "True"
         /\ sess[o].result = "True"
         /\ \A t \in Sessions \ {s, o} :
               ~(sess[t].op \in Writers /\
                 sess[t].telegram_id = sess[s].telegram_id)) =>
            select_user(store, sess[s].telegram_id).credits_remaining =
                sess[s].seen.credits_remaining + delta(sess[s]) + delta(sess[o])

\* The table and the row success_payment_handler is handed for sender u.
Handed(u) == DbSessionMiddleware(users, u)

\* A step of success_payment_handler for this sender, payload and delivery,
\* told first by the sender and payload it records.
Paid(u, payload, delivery) ==
    /\ outcome'.uid = u
    /\ outcome'.arg = Some(payload)
    /\ success_payment_handler(u, payload, delivery)

\* The last event was a completed purchase of this amount by u.
Purchased(u, amount) ==
    /\ outcome.handler = "success_payment_handler"
    /\ outcome.uid = u
    /\ outcome.arg = Some(CreditsPayload(amount))
    /\ outcome.reply = "credited"

\* C24: a successful payment with payload buy:credits:A, A > 0, from U adds
\* exactly A to U's balance; if U has a referrer R it adds floor(A * 20 / 100)
\* to R's balance and the same to R's referral_earnings; if U has no
\* referrer, U's balance is the only thing that changes.
C24_PurchaseCredits ==
    [][\A u \in Members, a \in PurchaseAmounts, d \in Deliveries :
          Paid(u, CreditsPayload(a), d) =>
             LET before == Handed(u).db
                 r == Handed(u).user.referred_by_id
                 bonus == (a * 20) \div 100
             IN  /\ a > 0
                 /\ users'[u].credits_remaining
                       = before[u].credits_remaining + a
                 /\ r # None =>
                       /\ users'[r].credits_remaining
                             = before[r].credits_remaining + bonus
                       /\ users'[r].referral_earnings
                             = before[r].referral_earnings + bonus
                 /\ r = None =>
                       users' = [before EXCEPT ![u].credits_remaining = @ + a]
      ]_vars

\* A referred user has bought 100 credits: 325 in hand, and the referrer has
\* the bonus of 20 in the balance and in referral_earnings.
C24_Witness ==
    \E u \in Members, r \in Members :
        /\ Purchased(u, 100)
        /\ purchases = SetToBag({<<u, 100>>})
        /\ users[u].referred_by_id = r
        /\ users[u].credits_remaining = 225 + 100
        /\ users[r].credits_remaining = 125 + 20
        /\ users[r].referral_earnings = 20

\* C25: a successful payment of amount A with floor(A * 0.20) = 0 (A in
\* 1..4) by a referred user credits the purchaser A and leaves the referrer's
\* row as it was: no add_credits, no add_referral_earnings, and no bonus
\* notification.
C25_NoBonusNoReferrerChange ==
    [][/\ \A a \in 1..4 : ~bonus_due(bonus_amount(a))
       /\ \A u \in Members, d \in Deliveries :
             Paid(u, CreditsPayload(4), d) =>
                LET before == Handed(u).db
                    r == Handed(u).user.referred_by_id
                IN  r # None =>
                       /\ users'[u].credits_remaining
                             = before[u].credits_remaining + 4
                       /\ users'[r] = before[r]
                       /\ users'[r] = users[r]
                       /\ outcome'.notification = "none"
      ]_vars

\* A referred user has bought 4 credits; the referrer's row is the one the
\* registration left.
C25_Witness ==
    \E u \in Members, r \in Members :
        /\ Purchased(u, 4)
        /\ users[u].referred_by_id = r
        /\ users[u].credits_remaining = 225 + 4
        /\ users[r].credits_remaining = 125
        /\ users[r].referral_earnings = 0
        /\ outcome.notification = "none"

\* C26: a purchase changes rows of at most two users, the purchaser and the
\* purchaser's direct referrer; when U was referred by R and R by G, a
\* purchase by U leaves G's credits_remaining and referral_earnings
\* unchanged.
C26_OneHopOnly ==
    [][\A u \in Members, p \in PurchasePayloads, d \in Deliveries :
          Paid(u, p, d) =>
             LET before == Handed(u).db
                 r == Handed(u).user.referred_by_id
             IN  /\ DOMAIN users' = DOMAIN before
                 /\ \A id \in DOMAIN before \ {u, r} :
                       users'[id] = before[id]
                 /\ r # None /\ before[r].referred_by_id # None =>
                       LET g == before[r].referred_by_id IN
                       /\ users'[g].credits_remaining
                             = users[g].credits_remaining
                       /\ users'[g].referral_earnings
                             = users[g].referral_earnings
      ]_vars

\* U, referred by R, who was referred by G, has bought 100 credits: R has
\* the bonus, G has none.
C26_Witness ==
    \E u \in Members, r \in Members, g \in Members :
        /\ Purchased(u, 100)
        /\ purchases = SetToBag({<<u, 100>>})
        /\ users[u].referred_by_id = r
        /\ users[r].referred_by_id = g
        /\ users[r].referral_earnings = 20
        /\ users[r].credits_remaining = 225 + 20
        /\ users[g].referral_earnings = 0
        /\ users[g].credits_remaining = 125

\* The replies that send the purchaser to the support.
ContactSupport ==
    {"credit_error_contact_support", "kind_error_contact_support"}

\* C27: a successful payment whose payload is not exactly three fields with
\* an integer amount, or whose kind is not credits, changes no ledger field
\* of any user and ends with the contact-support message.
C27_MalformedPayload ==
    [][\A u \in Members, p \in MalformedPayloads, d \in Deliveries :
          Paid(u, p, d) =>
             /\ users' = Handed(u).db
             /\ \A id \in DOMAIN users :
                   /\ users'[id].credits_remaining
                         = users[id].credits_remaining
                   /\ users'[id].credits_used = users[id].credits_used
                   /\ users'[id].referral_earnings
                         = users[id].referral_earnings
             /\ purchases' = purchases
             /\ outcome'.reply \in ContactSupport
             /\ outcome'.notification = "none"
      ]_vars

\* A referred user's payment came with the two-field payload credits:100:
\* the reply is the contact-support message and both rows are as registered.
C27_Witness ==
    \E u \in Members, r \in Members :
        /\ outcome.handler = "success_payment_handler"
        /\ outcome.uid = u
        /\ outcome.arg = Some(credits \o <<":">> \o str(100))
        /\ outcome.reply = "credit_error_contact_support"
        /\ purchases = EmptyBag
        /\ users[u].referred_by_id = r
        /\ users[u].credits_remaining = 225
        /\ users[r].credits_remaining = 125
        /\ users[r].referral_earnings = 0

\* The sum of weight[e] over the elements of a finite set.
RECURSIVE Total(_, _)
Total(weight, elements) ==
    IF elements = {} THEN 0
    ELSE LET e == CHOOSE x \in elements : TRUE
         IN  weight[e] + Total(weight, elements \ {e})

\* The bonuses of the completed purchases made by users referred by r.
BonusesEarned(r) ==
    LET referred == {p \in BagToSet(purchases) :
                        get_user(users, p[1]) # NoUser
                        /\ users[p[1]].referred_by_id = r}
    IN  Total([p \in referred |->
                  CopiesIn(p, purchases) * ((p[2] * 20) \div 100)], referred)

\* The credits u bought in completed purchases.
CreditsBought(u) ==
    LET own == {p \in BagToSet(purchases) : p[1] = u}
    IN  Total([p \in own |-> CopiesIn(p, purchases) * p[2]], own)

C29_NotificationFailureSwallowed ==
    [][\A u \in Members, a \in PurchaseAmounts :
          Paid(u, CreditsPayload(a), "failed")
          /\ outcome'.notification = "failed" =>
             LET before == Handed(u).db
                 r == Handed(u).user.referred_by_id
                 bonus == (a * 20) \div 100
             IN  /\ outcome'.raised = FALSE
                 /\ outcome'.reply = "credited"
                 /\ r # None /\ bonus > 0
                 /\ users' = [before EXCEPT
                                 ![u].credits_remaining = @ + a,
                                 ![r].credits_remaining = @ + bonus,
                                 ![r].referral_earnings = @ + bonus]
                 /\ purchases' = purchases (+) SetToBag({<<u, a>>})
      ]_vars

\* A referred user has bought 100 credits and the referrer could not be
\* notified: both rows carry the purchase and the handler returned.
C29_Witness ==
    \E u \in Members, r \in Members :
        /\ Purchased(u, 100)
        /\ outcome.notification = "failed"
        /\ ~outcome.raised
        /\ users[u].referred_by_id = r
        /\ users[u].credits_remaining = 225 + 100
        /\ users[r].referral_earnings = 20
        /\ CopiesIn(<<u, 100>>, purchases) = 1

\* A step of referral_command or of the menu button for sender u.
LinkRequested(u) ==
    /\ outcome'.uid = u
    /\ referral_command(u) \/ show_referral_menu_callback(u)

\* C30: the first referral-link request of a user without a code stores the
\* code made from the user's identity alone; every later request, by
\* command or by the menu button, returns that code and changes neither it
\* nor any ledger field; no step of any handler changes a code once set.
C30_ReferralCodeIssuedOnce ==
    [][/\ \A id \in DOMAIN users :
             TruthyText(users[id].referral_link) =>
                /\ id \in DOMAIN users'
                /\ users'[id].referral_link = users[id].referral_link
       /\ \A u \in Ids :
             LinkRequested(u) =>
                LET before == Handed(u).db
                    had == before[u].referral_link
                IN  /\ outcome'.link = Some(referral_code(u))
                    /\ users'[u].referral_link = Some(referral_code(u))
                    /\ TruthyText(had) => users' = before
                    /\ ~TruthyText(had) =>
                          users' = [before EXCEPT ![u].referral_link =
                                                     Some(referral_code(u))]
                    /\ \A id \in DOMAIN users :
                          /\ users'[id].credits_remaining
                                = users[id].credits_remaining
                          /\ users'[id].credits_used = users[id].credits_used
                          /\ users'[id].referral_earnings
                                = users[id].referral_earnings
                          /\ users'[id].referred_by_id
                                = users[id].referred_by_id
      ]_vars

\* The menu button pressed by a user whose row already had the code, after
\* a purchase and a debit: the same code comes back.
C30_Witness ==
    \E u \in Ids :
        /\ outcome.handler = "show_referral_menu_callback"
        /\ outcome.uid = u
        /\ outcome.arg = Some(referral_code(u))
        /\ outcome.link = Some(referral_code(u))
        /\ users[u].referral_link = Some(referral_code(u))
        /\ users[u].credits_used > 0
        /\ BagCardinality(purchases) > 0

\* The ledger fields of every row present before the step are as they were.
LedgerUnchanged ==
    \A id \in DOMAIN users :
        /\ id \in DOMAIN users'
        /\ users'[id].credits_remaining = users[id].credits_remaining
        /\ users'[id].credits_used = users[id].credits_used
        /\ users'[id].referral_earnings = users[id].referral_earnings

\* C31: the handlers of /menu, /support and /referral, the buy-menu and
\* invoice callbacks, pre-checkout, every data-collection step of the card
\* and photo flows and both cancel callbacks leave credits_remaining,
\* credits_used and referral_earnings of every existing user unchanged.
C31_OnlyLedgerOperationsWrite ==
    [][\A u \in Ids :
          nops' = nops /\ (support_command(u) \/ Collecting(u) \/ Menus(u))
             => LedgerUnchanged
      ]_vars

\* An invoice has gone out to a user who is in the middle of a card
\* conversation and has 85 credits left after a debit of 40.
C31_Witness ==
    \E u \in Chatters :
        /\ outcome.handler = "send_invoice_handler"
        /\ outcome.uid = u
        /\ outcome.reply = "invoice"
        /\ state[u] = CardWaitingForAudience
        /\ users[u].credits_remaining = 85
        /\ users[u].credits_used = 40

\* The states of the card conversation, in the order of the questions.
CardOrder ==
    <<CardWaitingForPhoto, CardWaitingForCharacteristics,
      CardWaitingForAudience, CardWaitingForSellingPoints>>

\* What the conversation has stored once it is in the i-th card state: the
\* photo from the second on, the three characteristics from the third on,
\* the audience in the fourth.
CollectedUpTo(d, i) ==
    /\ i >= 2 => TruthyId(Get(d, "photo_file_id", Nothing))
    /\ i >= 3 => {"name", "brand", "category"}
                    \subseteq DOMAIN Get(d, "characteristics", EmptyDict)
    /\ i >= 4 => Get(d, "target_audience", Nothing) # Nothing

\* A reply to a message of the wrong type in one of the card states.
CardWrongType(u) ==
    \/ process_card_photo_error(u)
    \/ process_characteristics_error(u)
    \/ process_target_audience_error(u)
    \/ process_selling_points_error(u)

\* C32: the card-generation call is reached only through waiting_for_photo,
\* waiting_for_characteristics, waiting_for_audience and
\* waiting_for_selling_points in this order: a card state is entered from
\* the one before it (the first from anywhere, by the start button), each
\* state holds what the earlier ones collected, the gated flow and its call
\* start in the last state, and a message of the wrong type leaves state and
\* data as they are.
C32_CardStatesInOrder ==
    [][\A u \in Chatters :
          /\ \A i \in 1..4 :
                state'[u] = CardOrder[i] =>
                   /\ CollectedUpTo(data'[u], i)
                   /\ state[u] # state'[u] /\ i > 1 =>
                         state[u] = CardOrder[i - 1]
          /\ flow'.kind = "card" /\ flow'.uid = u /\ flow'.pc \in {"debit", "call"}
                => /\ state'[u] = CardWaitingForSellingPoints
                   /\ Get(data'[u], "selling_points", Nothing) # Nothing
          /\ flow'.kind = "card" /\ flow'.uid = u /\ flow.pc \in {"idle", "done"}
             /\ flow' # flow
                => state[u] = CardWaitingForSellingPoints
          /\ state' = state /\ CardWrongType(u)
                => data' = data
          /\ CardWrongType(u)
                => state' = state
      ]_vars

\* The card service is about to be called: the conversation is in
\* waiting_for_selling_points with all four answers stored.
C32_Witness ==
    \E u \in Chatters :
        /\ flow.kind = "card"
        /\ flow.uid = u
        /\ flow.pc = "call"
        /\ flow.debited
        /\ state[u] = CardWaitingForSellingPoints
        /\ CollectedUpTo(data[u], 4)
        /\ data[u].selling_points = Some(<<"x">>)

\* The characteristics asked for in waiting_for_characteristics, in order.
Fields == <<"name", "brand", "category">>

\* The characteristics stored so far and the field asked for next.
Stored(d) == DOMAIN Get(d, "characteristics", EmptyDict)
Asked(d) == Get(d, "characteristics_step", "name")

\* C36: in waiting_for_characteristics the fields are collected in the order
\* name, brand, category, one per text message; the state changes to
\* waiting_for_audience only on the message that records category, when all
\* three are set; a flow restarted with a new photo begins again at name
\* with empty characteristics.
C36_CharacteristicsInOrder ==
    [][\A u \in Chatters :
          /\ state'[u] = CardWaitingForCharacteristics =>
                \E i \in 1..3 :
                   /\ Asked(data'[u]) = Fields[i]
                   /\ Stored(data'[u]) = {Fields[j] : j \in 1..(i - 1)}
          /\ \A t \in Texts :
                state[u] = CardWaitingForCharacteristics
                /\ process_characteristics(u, t) =>
                   LET field == Asked(data[u]) IN
                   /\ Stored(data'[u]) = Stored(data[u]) \cup {field}
                   /\ data'[u].characteristics[field] = strip(t)
                   /\ \A k \in Stored(data[u]) :
                         data'[u].characteristics[k]
                            = data[u].characteristics[k]
                   /\ state'[u] = IF field = "category"
                                  THEN CardWaitingForAudience
                                  ELSE CardWaitingForCharacteristics
          /\ state[u] = CardWaitingForCharacteristics
             /\ state'[u] = CardWaitingForAudience =>
                /\ Asked(data[u]) = "category"
                /\ Stored(data'[u]) = {"name", "brand", "category"}
          /\ state[u] # CardWaitingForCharacteristics
             /\ state'[u] = CardWaitingForCharacteristics =>
                /\ state[u] = CardWaitingForPhoto
                /\ Asked(data'[u]) = "name"
                /\ Stored(data'[u]) = {}
      ]_vars

\* After an earlier flow that was paid for, a new one has collected name,
\* brand (a blank message, stored empty) and category, and asks for the
\* audience.
C36_Witness ==
    \E u \in Chatters :
        /\ state[u] = CardWaitingForAudience
        /\ Stored(data[u]) = {"name", "brand", "category"}
        /\ data[u].characteristics["name"] = <<"x">>
        /\ data[u].characteristics["brand"] = <<>>
        /\ data[u].characteristics["category"] = <<"x">>
        /\ users[u].credits_used > 0

\* The photos collected in a conversation.
Photos(d) == Get(d, "photo_file_ids", <<>>)

\* C37: the list of collected photos never holds more than 3 entries; the
\* state moves to waiting_for_prompt when the third photo is added or on
\* photos_done with at least one photo; photos_done with no photo leaves the
\* state at waiting_for_photo; so in waiting_for_prompt the list holds
\* between 1 and 3 photos.
C37_PhotoListBounded ==
    [][\A u \in Chatters :
          /\ Len(Photos(data'[u])) <= 3
          /\ state'[u] = PhotoWaitingForPrompt =>
                Len(Photos(data'[u])) \in 1..3
          /\ state[u] # PhotoWaitingForPrompt
             /\ state'[u] = PhotoWaitingForPrompt =>
                /\ state[u] = PhotoWaitingForPhoto
                /\ \/ /\ Len(Photos(data[u])) = 2
                      /\ Len(Photos(data'[u])) = 3
                   \/ /\ Len(Photos(data[u])) >= 1
                      /\ data' = data
          /\ \A f \in FileIds :
                state[u] = PhotoWaitingForPhoto /\ process_photo(u, f) =>
                   /\ Photos(data'[u]) = Append(Photos(data[u]), f)
                   /\ state'[u] = IF Len(Photos(data[u])) = 2
                                  THEN PhotoWaitingForPrompt
                                  ELSE PhotoWaitingForPhoto
          /\ state[u] = PhotoWaitingForPhoto /\ callback_photos_done(u) =>
                /\ data' = data
                /\ state'[u] = IF Photos(data[u]) = <<>>
                               THEN PhotoWaitingForPhoto
                               ELSE PhotoWaitingForPrompt
      ]_vars

\* The third photo has arrived: the conversation asks for the prompt with
\* three photos stored.
C37_Witness ==
    \E u \in Chatters :
        /\ state[u] = PhotoWaitingForPrompt
        /\ Len(Photos(data[u])) = 3
        /\ flow.pc = "idle"

\* C38: in waiting_for_prompt a prompt whose stripped length is below 5 or
\* above 1500 is rejected: state, stored prompt and photos stay, nothing is
\* debited and no flow towards the service begins; a prompt of 5..1500
\* characters enters the gated flow, and the gated photo flow begins with
\* such a prompt only.
C38_PromptLengthGate ==
    [][\A u \in Chatters :
          /\ \A t \in PromptTexts :
                state[u] = PhotoWaitingForPrompt /\ process_prompt(u, t) =>
                   IF Len(strip(t)) < 5 \/ Len(strip(t)) > 1500
                   THEN /\ state' = state
                        /\ data' = data
                        /\ LedgerUnchanged
                        /\ flow' = IdleFlow
                   ELSE /\ flow'.kind = "photo"
                        /\ flow'.uid = u
                        /\ flow'.pc \in {"debit", "done"}
                        /\ ~flow'.called
          /\ flow.pc \in {"idle", "done"} /\ flow'.kind = "photo"
             /\ flow'.uid = u /\ flow'.pc = "debit" =>
                /\ state[u] = PhotoWaitingForPrompt
                /\ Len(data'[u].prompt[1]) \in 5..1500
                /\ Photos(data'[u]) = Photos(data[u])
      ]_vars

\* A prompt of 1500 characters has been taken and the 40 credits debited;
\* the service is about to be called.
C38_Witness ==
    \E u \in Chatters :
        /\ flow.kind = "photo"
        /\ flow.uid = u
        /\ flow.pc = "call"
        /\ flow.debited
        /\ Len(data[u].prompt[1]) = 1500
        /\ users[u].credits_used >= 40

\* One of the two cancel buttons pressed by u.
CancelPressed(u) ==
    \/ callback_cancel_card_generation(u)
    \/ callback_cancel_photo_processing(u)

\* C39: a cancel callback, from any conversation state, clears the state and
\* the collected data, calls no service and changes no ledger field; after
\* it (as whenever no state is set) an event changes neither state nor data
\* and starts no flow, unless it is one of the two start buttons.
C39_CancelClears ==
    [][\A u \in Chatters :
          /\ flow'.outcome = "cancelled" /\ CancelPressed(u) =>
                /\ state'[u] = NoState
                /\ data'[u] = EmptyDict
                /\ flow'.pc = "idle" /\ ~flow'.called /\ ~flow'.debited
                /\ LedgerUnchanged
          /\ state[u] = NoState /\ Accept =>
                \/ /\ state'[u] = NoState
                   /\ data'[u] = data[u]
                   /\ flow'.pc = "idle"
                   /\ LedgerUnchanged
                \/ /\ state'[u] = CardWaitingForPhoto
                   /\ callback_start_card_generation(u)
                \/ /\ state'[u] = PhotoWaitingForPhoto
                   /\ callback_start_photo_processing(u)
      ]_vars

\* A conversation has just been cancelled by a user who paid for a photo
\* earlier: no state, no data, 40 credits used.
C39_Witness ==
    \E u \in Chatters :
        /\ flow = Cancelled(u)
        /\ state[u] = NoState
        /\ data[u] = EmptyDict
        /\ users[u].credits_used = 40

\* What registration granted u: 225 with a referrer recorded, 125 without.
StartingBalance(u) ==
    IF users[u].referred_by_id # None THEN 225 ELSE 125

\* C35: with one event at a time, for every user credits_remaining plus
\* credits_used is the registration grant (125 or 225) plus everything
\* add_credits added: the user's own purchases and the referral bonuses; a
\* debit moves credits from one field to the other and leaves the sum.
C35_LedgerConserved ==
    \A u \in DOMAIN users :
        users[u].credits_remaining + users[u].credits_used
            = StartingBalance(u) + CreditsBought(u) + BonusesEarned(u)

\* A user who was debited once, bought credits and earned a bonus.
C35_Witness ==
    \E u \in DOMAIN users :
        /\ users[u].credits_used = PHOTO_GENERATION_COST
        /\ CreditsBought(u) > 0
        /\ BonusesEarned(u) > 0
        /\ users[u].credits_remaining
              = 125 - PHOTO_GENERATION_COST + CreditsBought(u) + BonusesEarned(u)

\* A payment of u with this payload has just ended in an exception.
FailedPaying(u, payload) ==
    /\ outcome'.raised
    /\ outcome'.uid = u
    /\ outcome'.arg = Some(payload)
    /\ success_payment_handler_earnings_fail(u, payload)

\* C34: when add_referral_earnings fails after the referrer's bonus was
\* added, neither the bonus in the referrer's credits_remaining nor the
\* amount credited to the purchaser is rolled back; only the earnings
\* counter misses the bonus.
C34_NoRollbackOnEarningsFailure ==
    [][\A u \in Members, a \in PurchaseAmounts :
          FailedPaying(u, CreditsPayload(a)) /\ u \in DOMAIN users =>
              LET r == users[u].referred_by_id IN
              /\ r # None
              /\ users'[u].credits_remaining = users[u].credits_remaining + a
              /\ users'[r].credits_remaining
                    = users[r].credits_remaining + bonus_amount(a)
              /\ users'[r].referral_earnings = users[r].referral_earnings
      ]_vars

\* The first payment of 100 by a referred user has failed in the earnings
\* step: the purchaser holds 325, the referrer 145 with no earnings counted.
C34_Witness ==
    \E u \in DOMAIN users :
        /\ outcome.raised
        /\ outcome.handler = "success_payment_handler"
        /\ outcome.uid = u
        /\ outcome.arg = Some(CreditsPayload(100))
        /\ users[u].referred_by_id # None
        /\ users[u].credits_remaining = 325
        /\ users[users[u].referred_by_id].credits_remaining = 145
        /\ users[users[u].referred_by_id].referral_earnings = 0

\* The gated flows of this user that have invoked the external service.
Invoked(id) ==
    {s \in Sessions : /\ sess[s].op = "gated_flow"
                      /\ sess[s].telegram_id = id
                      /\ sess[s].result = "invoked"}

\* C33: under any interleaving of overlapping gated flows of one user, each
\* invocation of the external service is paid for: the costs of the flows
\* that invoked it add up to no more than what the user's row records as
\* debited.
C33_InvocationsArePaid ==
    \A id \in Ids :
        (/\ select_user(store, id) # NoUser
         /\ \A t \in Sessions :
               ~(sess[t].op \in Mutations /\ sess[t].telegram_id = id)) =>
            Total([s \in Invoked(id) |-> sess[s].arg], Invoked(id))
                <= select_user(store, id).credits_used

\* The /start argument names no referrer: there is none, it does not start
\* with "ref_", or what follows "ref_" is not an integer literal.
NamesNoReferrer(args) ==
    \/ ~TruthyText(args)
    \/ ~startswith(args[1], ref_)
    \/ int(SubSeq(args[1], Len(ref_) + 1, Len(args[1]))) = Nothing

\* NamesNoReferrer of every /start argument that comes in, worked out once.
names_no_referrer == [a \in StartArgs |-> NamesNoReferrer(a)]

\* C40: the code a referral-link request issues to R, given as the /start
\* argument, is parsed back to R's identity; an argument that does not
\* start with ref_ or whose suffix is not an integer gives start_command no
\* referrer, and the sender's row is unreferred.
C40_ReferralCodeRoundTrip ==
    [][/\ outcome'.link # Nothing /\ outcome'.link \in StartArgs =>
             referrer_of[outcome'.link] = outcome'.uid
       /\ \A a \in StartArgs, u \in Ids :
             names_no_referrer[a] /\ start_command(u, a) =>
                 /\ referrer_of[a] = None
                 /\ u \notin DOMAIN users => users'[u].referred_by_id = None
      ]_vars

==============================================================================
